---- MODULE Spec2Model ----
(***************************************************************************)
(* A model of the 2D Perlin/Value noise generator CPerlinNoise2D            *)
(* (Src/perlin.cpp, Src/perlin.h, Src/Helpers.cpp).                         *)
(*                                                                         *)
(* float values are IEEE 754 single precision values <<m, e>>, standing for *)
(* m * 2^e, and every float operation rounds its result to the nearest      *)
(* float; <<0, 1>> is NaN and <<1, 1024>>, <<-1, 1024>> are the infinities  *)
(* that a division by zero yields.  Arrays are functions on 0 .. size-1,    *)
(* as in the C++ code.                                                      *)
(***************************************************************************)
EXTENDS Integers, Sequences, FiniteSets, TLC

(***************************************************************************)
(* Bounds of the model.                                                    *)
(***************************************************************************)
\* m_nSeed = timeGetTime() is any unsigned value; the model draws it from
\* 1 .. MaxSeed.
MaxSeed == 1
\* Resolution of a uniform real draw: generate_canonical yields k/RealSteps.
RealSteps == 8
\* A normal draw deviates from the mean by at most NormalSpread deviations.
NormalSpread == 4
\* An exponential draw is one of 0/lambda .. ExpSpread/lambda.
ExpSpread == 6

(***************************************************************************)
(* Program constants.                                                      *)
(***************************************************************************)
m_nDefTableSize == 256
m_nMinTableSize == 16
m_nMaxTableSize == 1024

eHash == {"Permutation", "LinearCongruential", "Std"}
eSpline == {"None", "Cubic", "Quintic"}
eDistribution == {"Uniform", "Maximal", "Cosine", "Normal", "Exponential", "Midpoint"}
eNoise == {"None", "Perlin", "Value"}

(***************************************************************************)
(* The state.  m_pPerlin is the engine that CMain owns and m_pPerlin2 a     *)
(* second engine, for the statements that compare two engines.  last is    *)
(* the last call made on m_pPerlin, with its arguments and what it          *)
(* returned.  filled holds the arrays that the loops of RandomizeTable and *)
(* RandomizePermutation write from each seed and size of the model: the    *)
(* loops are run once, before the first state, and a call that starts from *)
(* one of these seeds and sizes takes the array they wrote.  filled never  *)
(* changes.  g_pMain is the CMain object of the application, which owns   *)
(* m_pPerlin: its octave count, scale, noise type and selections, and what *)
(* its bitmap was generated from; it is nullptr where the engine is taken  *)
(* on its own.                                                             *)
(***************************************************************************)
VARIABLES m_pPerlin, m_pPerlin2, last, filled, g_pMain

vars == <<m_pPerlin, m_pPerlin2, last, filled, g_pMain>>

(***************************************************************************)
(* float: IEEE 754 single precision.  A finite float is <<m, e>>, the      *)
(* value m * 2^e with m odd and |m| < 2^24, and zero is <<0, 0>> (the sign *)
(* of a zero is not kept).  Every operation computes the exact result and  *)
(* rounds it to the nearest float, ties to even, as the float expressions  *)
(* of the code do when they are evaluated in single precision.             *)
(***************************************************************************)
Abs(n) == IF n < 0 THEN -n ELSE n

Max(a, b) == IF a < b THEN b ELSE a

\* 2^k for k in 0 .. 30
Pow2(k) ==
  (IF k % 2 = 1 THEN 2 ELSE 1) * (IF (k \div 2) % 2 = 1 THEN 4 ELSE 1)
    * (IF (k \div 4) % 2 = 1 THEN 16 ELSE 1) * (IF (k \div 8) % 2 = 1 THEN 256 ELSE 1)
    * (IF k \div 16 = 1 THEN 65536 ELSE 1)

\* the number of bits of v, for 0 <= v < 2^31
BitLen8(v) ==
  IF v < 16
  THEN (IF v < 4 THEN (IF v < 2 THEN v ELSE 2) ELSE (IF v < 8 THEN 3 ELSE 4))
  ELSE (IF v < 64 THEN (IF v < 32 THEN 5 ELSE 6) ELSE (IF v < 128 THEN 7 ELSE 8))

BitLen(v) ==
  IF v < 65536
  THEN (IF v < 256 THEN BitLen8(v) ELSE 8 + BitLen8(v \div 256))
  ELSE (IF v < 16777216 THEN 16 + BitLen8(v \div 65536)
        ELSE 24 + BitLen8(v \div 16777216))

\* the exponent that marks an infinity: <<1, 1024>> and <<-1, 1024>>
InfExponent == 1024

Infinity == <<1, InfExponent>>

NaN == <<0, 1>>

IsNaN(a) == a[1] = 0 /\ a[2] # 0

IsFinite(a) == a[2] < InfExponent /\ ~IsNaN(a)

\* m * 2^e with the factors 2 of m moved into the exponent
RECURSIVE Strip(_, _)
Strip(m, e) ==
  IF m = 0 THEN <<0, 0>>
  ELSE IF m % 65536 = 0 THEN Strip(m \div 65536, e + 16)
  ELSE IF m % 256 = 0 THEN Strip(m \div 256, e + 8)
  ELSE IF m % 16 = 0 THEN Strip(m \div 16, e + 4)
  ELSE IF m % 2 = 0 THEN Strip(m \div 2, e + 1)
  ELSE <<m, e>>

\* the float m * 2^e for |m| <= 2^24, n being m * 2^e with m odd; beyond
\* FLT_MAX it is an infinity
Finish(m, n) ==
  IF n[1] # 0 /\ n[2] + BitLen(Abs(n[1])) > 128
  THEN <<(IF m < 0 THEN -1 ELSE 1), InfExponent>>
  ELSE n

Normalized(m, e) == Finish(m, Strip(m, e))

\* q, or q + 1 when the dropped bits r (and a sticky fraction below them)
\* are more than half, or exactly half with q odd
RoundUp(q, r, half, sticky) ==
  IF r > half \/ (r = half /\ (sticky \/ q % 2 = 1)) THEN q + 1 ELSE q

\* the float nearest to s * (v + f) * 2^e, for a sign s, 0 <= v < 2^31 and a
\* fraction f that is 0, or (when sticky) strictly between 0 and 1.  The
\* last place of a float is at least 2^-149; drop bits of v are rounded to
\* even.
RoundDrop(s, v, e, sticky, drop) ==
  IF drop > 30 THEN <<0, 0>>
  ELSE Normalized(s * (IF drop <= 0 THEN v
                       ELSE RoundUp(v \div Pow2(drop), v % Pow2(drop),
                                    Pow2(drop - 1), sticky)),
                  e + Max(drop, 0))

RoundF(s, v, e, sticky) ==
  RoundDrop(s, v, e, sticky, Max(BitLen(v) - 24, (-149) - e))

\* (float)n for an integer n
IntF(n) == RoundF((IF n < 0 THEN -1 ELSE 1), Abs(n), 0, FALSE)

FNeg(a) == <<-a[1], a[2]>>

Sign(a) == IF a[1] < 0 THEN -1 ELSE 1

\* RoundF for a value v that may be negative
SignedRound(s, v, e, sticky) ==
  RoundF((IF v < 0 THEN -s ELSE s), Abs(v), e, sticky)

\* the position of the leading bit of a finite nonzero float
Top(a) == a[2] + BitLen(Abs(a[1]))

\* a + b for finite nonzero a and b, a being the one whose leading bit is
\* not below that of b: a is shifted up to 30 bits and b aligned to it
AlignedSum(a, b) ==
  LET g == 30 - BitLen(Abs(a[1]))
      big == Abs(a[1]) * Pow2(g)
      d == (a[2] - g) - b[2]
      small == IF d <= 0 THEN Abs(b[1]) * Pow2(-d)
               ELSE IF d > 30 THEN 0
               ELSE Abs(b[1]) \div Pow2(d)
      sticky == d > 0 /\ (d > 30 \/ Abs(b[1]) % Pow2(d) # 0)
  IN  SignedRound(Sign(a),
                  (IF Sign(a) = Sign(b) THEN big + small
                   ELSE big - small - (IF sticky THEN 1 ELSE 0)),
                  a[2] - g, sticky)

FAdd(a, b) ==
  IF ~IsFinite(a) \/ ~IsFinite(b)
  THEN (IF IsNaN(a) \/ IsNaN(b) THEN NaN
        ELSE IF ~IsFinite(a) /\ ~IsFinite(b) /\ a # b THEN NaN
        ELSE IF ~IsFinite(a) THEN a ELSE b)
  ELSE IF a[1] = 0 THEN b
  ELSE IF b[1] = 0 THEN a
  ELSE AlignedSum((IF Top(a) >= Top(b) THEN a ELSE b),
                  (IF Top(a) >= Top(b) THEN b ELSE a))

FSub(a, b) == FAdd(a, FNeg(b))

\* x * y for 2^30 <= x * y < 2^48, as <<v, e, sticky>> with v its 30
\* leading bits: the product is h * 2^24 + l from the 12-bit halves of x and
\* y
WideProduct(e, h, l, k) ==
  <<h * Pow2(k) + l \div Pow2(24 - k), e + 24 - k, l % Pow2(24 - k) # 0>>

ProductHalves(e, hi, mid, lo) ==
  LET second == (mid % 4096) * 4096 + lo
      h == hi + mid \div 4096 + second \div 16777216
  IN  WideProduct(e, h, second % 16777216, 30 - BitLen(h))

Rounded(s, t) == RoundF(s, t[1], t[2], t[3])

Product(s, x, y, e) ==
  Rounded(s, IF BitLen(x) + BitLen(y) <= 31 THEN <<x * y, e, FALSE>>
             ELSE ProductHalves(e, (x \div 4096) * (y \div 4096),
                      (x \div 4096) * (y % 4096) + (x % 4096) * (y \div 4096),
                      (x % 4096) * (y % 4096)))

FMul(a, b) ==
  IF ~IsFinite(a) \/ ~IsFinite(b)
  THEN (IF IsNaN(a) \/ IsNaN(b) \/ a[1] = 0 \/ b[1] = 0 THEN NaN
        ELSE <<Sign(a) * Sign(b), InfExponent>>)
  ELSE IF a[1] = 0 \/ b[1] = 0 THEN <<0, 0>>
  ELSE Product(Sign(a) * Sign(b), Abs(a[1]), Abs(b[1]), a[2] + b[2])

\* the long division x / y, one bit of the quotient q at a time, until q
\* has 27 bits or the remainder r is 0; n counts the bits after the point
RECURSIVE Quotient(_, _, _, _, _, _)
Quotient(s, q, r, y, e, n) ==
  IF r = 0 \/ q >= 67108864 THEN RoundF(s, q, e - n, r # 0)
  ELSE IF 2 * r >= y THEN Quotient(s, 2 * q + 1, 2 * r - y, y, e, n + 1)
  ELSE Quotient(s, 2 * q, 2 * r, y, e, n + 1)

FDiv(a, b) ==
  IF ~IsFinite(a) \/ ~IsFinite(b)
  THEN (IF IsNaN(a) \/ IsNaN(b) \/ (~IsFinite(a) /\ ~IsFinite(b)) THEN NaN
        ELSE IF ~IsFinite(a) THEN <<Sign(a) * Sign(b), InfExponent>>
        ELSE <<0, 0>>)
  ELSE IF b[1] = 0
  THEN (IF a[1] = 0 THEN NaN ELSE <<Sign(a), InfExponent>>)
  ELSE IF a[1] = 0 THEN <<0, 0>>
  ELSE Quotient(Sign(a) * Sign(b), Abs(a[1]) \div Abs(b[1]),
                Abs(a[1]) % Abs(b[1]), Abs(b[1]), a[2] - b[2], 0)

\* the float nearest to n/d, for integers n and d
Float(n, d) == FDiv(IntF(n), IntF(d))

\* |a| < |b| for finite nonzero a and b: by the leading bits, and for
\* equal leading bits by the mantissas aligned to 24 bits
Smaller(a, b) ==
  IF Top(a) # Top(b) THEN Top(a) < Top(b)
  ELSE Abs(a[1]) * Pow2(24 - BitLen(Abs(a[1])))
         < Abs(b[1]) * Pow2(24 - BitLen(Abs(b[1])))

\* a < b; every comparison with a NaN is false
FLt(a, b) ==
  /\ ~IsNaN(a) /\ ~IsNaN(b)
  /\ a # b
  /\ IF ~IsFinite(a) THEN a[1] < 0
     ELSE IF ~IsFinite(b) THEN b[1] > 0
     ELSE IF a[1] <= 0 /\ b[1] >= 0 THEN TRUE
     ELSE IF a[1] >= 0 /\ b[1] <= 0 THEN FALSE
     ELSE IF a[1] > 0 THEN Smaller(a, b)
     ELSE Smaller(b, a)

FLe(a, b) == ~IsNaN(a) /\ ~IsNaN(b) /\ (a = b \/ FLt(a, b))

\* floorf of a finite float, as an integer
Floorf(a) ==
  IF a[2] >= 0 THEN a[1] * Pow2(a[2])
  ELSE IF -a[2] > 30 THEN (IF a[1] < 0 THEN -1 ELSE 0)
  ELSE a[1] \div Pow2(-a[2])

(***************************************************************************)
(* Helpers.cpp                                                             *)
(***************************************************************************)
spline3(t) ==
  FMul(FMul(t, t), FSub(<<3, 0>>, FMul(<<1, 1>>, t)))

spline5(t) ==
  FMul(FMul(FMul(t, t), t),
       FAdd(<<5, 1>>,
            FMul(FMul(<<3, 0>>, t), FSub(FMul(<<1, 1>>, t), <<5, 0>>))))

lerp(t, a, b) == FAdd(a, FMul(t, FSub(b, a)))

\* std::min(x, b) is (b < x) ? b : x and std::max(a, m) is (a < m) ? m : a
FMin(x, b) == IF FLt(b, x) THEN b ELSE x

FMax(a, m) == IF FLt(a, m) THEN m ELSE a

clamp(a, x, b) == FMax(a, FMin(x, b))

RECURSIVE BitAnd(_, _)
BitAnd(x, y) ==
  IF x = 0 \/ y = 0 THEN 0
  ELSE (x % 2) * (y % 2) + 2 * BitAnd(x \div 2, y \div 2)

RECURSIVE BitXor(_, _)
BitXor(x, y) ==
  IF x = 0 THEN y
  ELSE IF y = 0 THEN x
  ELSE ((x + y) % 2) + 2 * BitXor(x \div 2, y \div 2)

isPowerOf2(n) == n # 0 /\ BitAnd(n, n - 1) = 0

(***************************************************************************)
(* The pseudo-random number generator m_stdRandom and the distributions.   *)
(* std::default_random_engine is modelled as minstd_rand0                  *)
(* (x' = 16807 x mod 2^31 - 1), computed with Schrage's method so that no  *)
(* intermediate value exceeds 31 bits.  A distribution consumes one engine *)
(* value per draw and maps it into its range.                              *)
(***************************************************************************)
RandModulus == 2147483647
RandMultiplier == 16807
RandQ == RandModulus \div RandMultiplier
RandR == RandModulus % RandMultiplier

\* m_stdRandom.seed(s)
seed(s) == IF s % RandModulus = 0 THEN 1 ELSE s % RandModulus

\* one step of the engine; the new state is also the value produced
NextRand(x) ==
  LET t == RandMultiplier * (x % RandQ) - RandR * (x \div RandQ)
  IN  IF t > 0 THEN t ELSE t + RandModulus

\* std::generate_canonical: the value x in [1, m-1] scaled into [0, 1)
RealStep == (RandModulus - 2) \div RealSteps + 1
Canonical(x) == Float((x - 1) \div RealStep, RealSteps)

\* std::uniform_real_distribution<float>(a, b) applied to the engine value x
UniformReal(a, b, x) == FAdd(a, FMul(FSub(b, a), Canonical(x)))

\* a distribution that draws from [0, b] whatever a is
UniformIntFromZero(a, b, x) == x % (b + 1)

\* std::uniform_int_distribution<size_t>(a, b) applied to the engine value x
UniformInt(a, b, x) == a + (x % (b - a + 1))

\* std::normal_distribution<float>(mean, dev) applied to the engine value x
NormalReal(mean, dev, x) ==
  FAdd(mean, FMul(dev, IntF((x % (2 * NormalSpread + 1)) - NormalSpread)))

\* std::exponential_distribution<float>(lambda) applied to the engine value x
ExponentialReal(lambda, x) == FDiv(IntF(x % (ExpSpread + 1)), lambda)

\* cosf(PI*u) for u in [0, 1], by Bhaskara's rational approximation of the
\* sine, sin(pi v) ~ 16 v (1 - v) / (5 - 4 v (1 - v)) for v in [0, 1]
Bhaskara(p) == FDiv(FMul(<<1, 4>>, p), FSub(<<5, 0>>, FMul(<<1, 2>>, p)))

SinPi(v) == Bhaskara(FMul(v, FSub(<<1, 0>>, v)))

CosPi(u) ==
  IF FLe(u, <<1, -1>>) THEN SinPi(FAdd(u, <<1, -1>>))
  ELSE FNeg(SinPi(FSub(u, <<1, -1>>)))

(***************************************************************************)
(* CPerlinNoise2D: functions that change noise settings.  An engine is a   *)
(* record of the data members of perlin.h; every member function takes the *)
(* engine and yields the engine after the call.                            *)
(***************************************************************************)
\* f(v) for the value v of x: x is evaluated once, before f
Then(x, f(_)) == CHOOSE r \in {f(v) : v \in {x}} : TRUE

\* for(size_t i=lo; i<hi; i++) Body, as a function of the engine: the
\* iterations run in order, split in halves to keep the evaluation shallow
RECURSIVE For(_, _, _, _)
For(Body(_, _), e, lo, hi) ==
  IF hi <= lo THEN e
  ELSE IF hi = lo + 1 THEN Body(e, lo)
  ELSE Then(For(Body, e, lo, (lo + hi) \div 2),
            LAMBDA v : For(Body, v, (lo + hi) \div 2, hi))

IdentityPermutation(e, i) == [e EXCEPT !.m_nPerm[i] = i]

\* a shuffle step that copies m_nPerm[j] to m_nPerm[i] without swapping
ShufflePermutationCopy(e, i) ==
  LET x == NextRand(e.m_stdRandom)
      j == UniformInt(i, e.m_nSize - 1, x)
  IN  [e EXCEPT !.m_nPerm[i] = e.m_nPerm[j], !.m_stdRandom = x]

\* std::swap(a[i], a[j])
Swap(a, i, j) == [a EXCEPT ![i] = a[j], ![j] = a[i]]

ShufflePermutation(e, i) ==
  LET x == NextRand(e.m_stdRandom)
      j == UniformInt(i, e.m_nSize - 1, x)
  IN  [e EXCEPT !.m_nPerm = Swap(e.m_nPerm, i, j), !.m_stdRandom = x]

\* the seeds and the table sizes of the model
Seeds == 1 .. MaxSeed

TableSizes == {n \in m_nMinTableSize .. m_nMaxTableSize : isPowerOf2(n)}

\* an array element that new[] allocated and nothing has written yet
Uninitialized == <<0, -1>>

\* an engine with freshly allocated arrays, seed s and PRNG state x
Blank(s, x, n) ==
  [m_eHash |-> "Permutation", m_eSpline |-> "Cubic", m_eDistribution |-> "Uniform",
   m_nPerm |-> [i \in 0 .. n - 1 |-> -1],
   m_fTable |-> [i \in 0 .. n - 1 |-> Uninitialized],
   m_stdRandom |-> x, m_nSeed |-> s, m_nSize |-> n, m_nMask |-> n - 1]

ShuffleLoops(e) ==
  Then(For(IdentityPermutation, e, 0, e.m_nSize),
       LAMBDA e1 : For(ShufflePermutation,
                       [e1 EXCEPT !.m_stdRandom = seed(e1.m_nSeed)], 0, e1.m_nSize))

\* what the loops write on freshly allocated arrays, for each seed and size;
\* complete: they wrote every element
WrittenPermutation(e) ==
  [m_nPerm |-> e.m_nPerm, m_stdRandom |-> e.m_stdRandom,
   complete |-> \A i \in DOMAIN e.m_nPerm : e.m_nPerm[i] # -1]

ShuffledPermutations ==
  [k \in Seeds \X TableSizes |->
     WrittenPermutation(ShuffleLoops(Blank(k[1], seed(k[1]), k[2])))]

\* the two loops without the call of seed() between them
RandomizePermutationUnseeded(e) ==
  Then(For(IdentityPermutation, e, 0, e.m_nSize),
       LAMBDA e1 : For(ShufflePermutation, e1, 0, e1.m_nSize))

RandomizePermutation(e) ==
  IF /\ <<e.m_nSeed, e.m_nSize>> \in DOMAIN filled.m_nPerm
     /\ filled.m_nPerm[<<e.m_nSeed, e.m_nSize>>].complete
     /\ DOMAIN e.m_nPerm = 0 .. e.m_nSize - 1
  THEN [e EXCEPT !.m_nPerm = filled.m_nPerm[<<e.m_nSeed, e.m_nSize>>].m_nPerm,
                 !.m_stdRandom = filled.m_nPerm[<<e.m_nSeed, e.m_nSize>>].m_stdRandom]
  ELSE ShuffleLoops(e)

\* the entry that RandomizeTableMidpoint(i, j, alpha) writes at mid
MidpointEntry(e, i, j, mid, alpha) ==
  LET fMean == FDiv(FAdd(e.m_fTable[i], e.m_fTable[j]), <<1, 1>>)
      x == NextRand(e.m_stdRandom)
      fRand == FMul(alpha, UniformReal(<<-1, 0>>, <<1, 0>>, x))
  IN  [e EXCEPT !.m_fTable[mid] = clamp(<<-1, 0>>, FAdd(fMean, fRand), <<1, 0>>),
                !.m_stdRandom = x]

RECURSIVE RandomizeTableMidpointRec(_, _, _, _)
RandomizeTableMidpointRec(e, i, j, alpha) ==
  IF j > i + 1
  THEN Then(MidpointEntry(e, i, j, (i + j) \div 2, alpha),
            LAMBDA e1 :
              Then(RandomizeTableMidpointRec(e1, i, (i + j) \div 2,
                                             FMul(alpha, <<1, -1>>)),
                   LAMBDA e2 :
                     RandomizeTableMidpointRec(e2, (i + j) \div 2, j,
                                               FMul(alpha, <<1, -1>>))))
  ELSE e

RandomizeTableMidpoint(e) ==
  LET e1 == [e EXCEPT !.m_fTable[0] = <<1, 0>>]
      e2 == [e1 EXCEPT !.m_fTable[e.m_nSize - 1] = <<-1, 0>>]
  IN  RandomizeTableMidpointRec(e2, 0, e.m_nSize - 1, <<1, -1>>)

UniformEntry(e, i) ==
  LET x == NextRand(e.m_stdRandom)
  IN  [e EXCEPT !.m_fTable[i] = UniformReal(<<-1, 0>>, <<1, 0>>, x),
                !.m_stdRandom = x]

RandomizeTableUniform(e) == For(UniformEntry, e, 0, e.m_nSize)

MaximalEntry(e, i) ==
  LET x == NextRand(e.m_stdRandom)
      v == IF FLt(<<0, 0>>, UniformReal(<<-1, 0>>, <<1, 0>>, x))
           THEN <<1, 0>> ELSE <<-1, 0>>
  IN  [e EXCEPT !.m_fTable[i] = v, !.m_stdRandom = x]

RandomizeTableMaximal(e) == For(MaximalEntry, e, 0, e.m_nSize)

\* a Normal entry without the clamp
NormalEntryUnclamped(e, i) ==
  LET x == NextRand(e.m_stdRandom)
      d == NormalReal(<<125, 2>>, <<25, 3>>, x)
      v == FSub(FMul(<<1, 1>>, FDiv(d, <<125, 3>>)), <<1, 0>>)
  IN  [e EXCEPT !.m_fTable[i] = v, !.m_stdRandom = x]

NormalEntry(e, i) ==
  LET x == NextRand(e.m_stdRandom)
      d == NormalReal(<<125, 2>>, <<25, 3>>, x)
      v == FSub(FMul(<<1, 1>>, clamp(<<0, 0>>, FDiv(d, <<125, 3>>), <<1, 0>>)),
                <<1, 0>>)
  IN  [e EXCEPT !.m_fTable[i] = v, !.m_stdRandom = x]

RandomizeTableNormal(e) == For(NormalEntry, e, 0, e.m_nSize)

CosEntry(e, i) ==
  LET x == NextRand(e.m_stdRandom)
  IN  [e EXCEPT !.m_fTable[i] = CosPi(UniformReal(<<0, 0>>, <<1, 0>>, x)),
                !.m_stdRandom = x]

RandomizeTableCos(e) == For(CosEntry, e, 0, e.m_nSize)

\* the rate of std::exponential_distribution<float> d(4.0f)
ExpRate == 4

ExpPositiveEntry(e, i) ==
  LET x == NextRand(e.m_stdRandom)
  IN  [e EXCEPT !.m_fTable[i] = clamp(<<0, 0>>, ExponentialReal(IntF(ExpRate), x), <<1, 0>>),
                !.m_stdRandom = x]

\* an entry of the second half without the negation
ExpEntryUnsigned(e, i) ==
  LET x == NextRand(e.m_stdRandom)
  IN  [e EXCEPT !.m_fTable[i] = clamp(<<0, 0>>, ExponentialReal(IntF(ExpRate), x), <<1, 0>>),
                !.m_stdRandom = x]

ExpNegativeEntry(e, i) ==
  LET x == NextRand(e.m_stdRandom)
  IN  [e EXCEPT !.m_fTable[i] = FNeg(clamp(<<0, 0>>, ExponentialReal(IntF(ExpRate), x), <<1, 0>>)),
                !.m_stdRandom = x]

\* a filler whose second half is the negation of the first, with no draws
RandomizeTableExpMirrored(e) ==
  Then(For(ExpPositiveEntry, e, 0, e.m_nSize \div 2),
       LAMBDA e1 : For(LAMBDA a, i : [a EXCEPT !.m_fTable[i] =
                                        FNeg(a.m_fTable[i - a.m_nSize \div 2])],
                       e1, e1.m_nSize \div 2, e1.m_nSize))

RandomizeTableExp(e) ==
  LET half == e.m_nSize \div 2
  IN  Then(For(ExpPositiveEntry, e, 0, half),
           LAMBDA e1 : For(ExpNegativeEntry, e1, half, e1.m_nSize))

FillTable(e, d) ==
  CASE d = "Uniform" -> RandomizeTableUniform(e)
    [] d = "Maximal" -> RandomizeTableMaximal(e)
    [] d = "Cosine" -> RandomizeTableCos(e)
    [] d = "Normal" -> RandomizeTableNormal(e)
    [] d = "Exponential" -> RandomizeTableExp(e)
    [] d = "Midpoint" -> RandomizeTableMidpoint(e)

\* the PRNG states that seed() yields for the seeds of the model
SeededStates == {seed(s) : s \in Seeds}

\* what the fillers write on a freshly allocated array, for each of these
\* PRNG states, each size and each distribution (they do not read m_nSeed)
WrittenTable(e) ==
  [m_fTable |-> e.m_fTable, m_stdRandom |-> e.m_stdRandom,
   complete |-> \A i \in DOMAIN e.m_fTable : e.m_fTable[i] # Uninitialized]

FilledTables ==
  [k \in SeededStates \X TableSizes \X eDistribution |->
     WrittenTable(FillTable(Blank(0, k[1], k[2]), k[3]))]

\* the arrays kept in filled, and no arrays kept
Filled == [m_nPerm |-> ShuffledPermutations, m_fTable |-> FilledTables]
NotFilled == [m_nPerm |-> <<>>, m_fTable |-> <<>>]

\* the array of filled that a call of RandomizeTable takes
TakeTable(e, c) == [e EXCEPT !.m_fTable = c.m_fTable, !.m_stdRandom = c.m_stdRandom]

\* a RandomizeTable that does not reseed m_stdRandom
RandomizeTableUnseeded(e, d) == FillTable([e EXCEPT !.m_eDistribution = d], d)

\* a RandomizeTable that also selects the Permutation hash
RandomizeTableResettingHash(e, d) ==
  FillTable([e EXCEPT !.m_stdRandom = seed(e.m_nSeed), !.m_eDistribution = d,
                      !.m_eHash = "Permutation"], d)

RandomizeTable(e, d) ==
  LET e1 == [e EXCEPT !.m_stdRandom = seed(e.m_nSeed), !.m_eDistribution = d]
  IN  IF /\ <<e1.m_stdRandom, e1.m_nSize, d>> \in DOMAIN filled.m_fTable
         /\ filled.m_fTable[<<e1.m_stdRandom, e1.m_nSize, d>>].complete
         /\ DOMAIN e1.m_fTable = 0 .. e1.m_nSize - 1
      THEN TakeTable(e1, filled.m_fTable[<<e1.m_stdRandom, e1.m_nSize, d>>])
      ELSE FillTable(e1, d)

\* an Initialize that leaves m_nMask as it was
InitializeStaleMask(e) ==
  LET e1 == [e EXCEPT !.m_nPerm = [i \in 0 .. e.m_nSize - 1 |-> -1],
                      !.m_fTable = [i \in 0 .. e.m_nSize - 1 |-> Uninitialized]]
  IN  Then(RandomizeTable(e1, e1.m_eDistribution), RandomizePermutation)

\* an Initialize that fills the table from the Uniform distribution
InitializeUniform(e) ==
  LET e1 == [e EXCEPT !.m_nMask = e.m_nSize - 1,
                      !.m_nPerm = [i \in 0 .. e.m_nSize - 1 |-> -1],
                      !.m_fTable = [i \in 0 .. e.m_nSize - 1 |-> Uninitialized]]
  IN  Then(RandomizeTable(e1, "Uniform"), RandomizePermutation)

Initialize(e) ==
  LET e1 == [e EXCEPT !.m_nMask = e.m_nSize - 1,
                      !.m_nPerm = [i \in 0 .. e.m_nSize - 1 |-> -1],
                      !.m_fTable = [i \in 0 .. e.m_nSize - 1 |-> Uninitialized]]
  IN  Then(RandomizeTable(e1, e1.m_eDistribution), RandomizePermutation)

\* the member initializers of perlin.h, SetSeed() with the value s that
\* timeGetTime() returned, then Initialize()
CPerlinNoise2D(s) ==
  Initialize([m_eHash |-> "Permutation", m_eSpline |-> "Cubic",
              m_eDistribution |-> "Uniform",
              m_nPerm |-> <<>>, m_fTable |-> <<>>,
              m_stdRandom |-> seed(1), m_nSeed |-> s,
              m_nSize |-> m_nDefTableSize, m_nMask |-> m_nDefTableSize - 1])

\* doubling that tests m_nSize <= m_nMaxTableSize
DoubleTableSizeInclusive(e) ==
  IF e.m_nSize <= m_nMaxTableSize
  THEN [engine |-> Initialize([e EXCEPT !.m_nSize = e.m_nSize * 2]), ret |-> TRUE]
  ELSE [engine |-> e, ret |-> FALSE]

\* the bool functions yield the engine after the call and the value returned
DoubleTableSize(e) ==
  IF e.m_nSize < m_nMaxTableSize
  THEN [engine |-> Initialize([e EXCEPT !.m_nSize = e.m_nSize * 2]), ret |-> TRUE]
  ELSE [engine |-> e, ret |-> FALSE]

\* halving that divides the size by four
HalveTableSizeQuarter(e) ==
  IF e.m_nSize > m_nMinTableSize
  THEN [engine |-> Initialize([e EXCEPT !.m_nSize = e.m_nSize \div 4]), ret |-> TRUE]
  ELSE [engine |-> e, ret |-> FALSE]

\* halving that returns true whether or not it changed the size
HalveTableSizeAlwaysTrue(e) ==
  IF e.m_nSize > m_nMinTableSize
  THEN [engine |-> Initialize([e EXCEPT !.m_nSize = e.m_nSize \div 2]), ret |-> TRUE]
  ELSE [engine |-> e, ret |-> TRUE]

HalveTableSize(e) ==
  IF e.m_nSize > m_nMinTableSize
  THEN [engine |-> Initialize([e EXCEPT !.m_nSize = e.m_nSize \div 2]), ret |-> TRUE]
  ELSE [engine |-> e, ret |-> FALSE]

DefaultTableSize(e) ==
  IF e.m_nSize # m_nDefTableSize
  THEN [engine |-> Initialize([e EXCEPT !.m_nSize = m_nDefTableSize]), ret |-> TRUE]
  ELSE [engine |-> e, ret |-> FALSE]

SetSpline(e, d) == [e EXCEPT !.m_eSpline = d]

SetHash(e, d) == [e EXCEPT !.m_eHash = d]

(***************************************************************************)
(* 64-bit unsigned arithmetic for hash2.  A uint64_t is a sequence of five *)
(* 13-bit limbs, least significant first; the top limb holds bits 52..63.   *)
(***************************************************************************)
LimbBase == 8192
TopLimbBase == 4096

\* (uint64_t)x for 0 <= x < 2^31
ToU64(x) ==
  <<x % LimbBase, (x \div LimbBase) % LimbBase,
    (x \div (LimbBase * LimbBase)) % LimbBase, 0, 0>>

\* propagate the carries of the limb sums c and drop what exceeds 64 bits
Carry(c) ==
  LET l1 == c[1]
      l2 == c[2] + (l1 \div LimbBase)
      l3 == c[3] + (l2 \div LimbBase)
      l4 == c[4] + (l3 \div LimbBase)
      l5 == c[5] + (l4 \div LimbBase)
  IN  <<l1 % LimbBase, l2 % LimbBase, l3 % LimbBase, l4 % LimbBase, l5 % TopLimbBase>>

\* a + b modulo 2^64
AddU64(a, b) == Carry([k \in 1 .. 5 |-> a[k] + b[k]])

\* a * b modulo 2^64
MulU64(a, b) ==
  Carry(<<a[1] * b[1],
          a[1] * b[2] + a[2] * b[1],
          a[1] * b[3] + a[2] * b[2] + a[3] * b[1],
          a[1] * b[4] + a[2] * b[3] + a[3] * b[2] + a[4] * b[1],
          a[1] * b[5] + a[2] * b[4] + a[3] * b[3] + a[4] * b[2] + a[5] * b[1]>>)

\* a < b
LessU64(a, b) ==
  \E k \in 1 .. 5 : a[k] < b[k] /\ \A m \in (k + 1) .. 5 : a[m] = b[m]

\* a - b for a >= b
SubU64(a, b) ==
  LET d1 == a[1] - b[1]
      d2 == a[2] - b[2] - (IF d1 < 0 THEN 1 ELSE 0)
      d3 == a[3] - b[3] - (IF d2 < 0 THEN 1 ELSE 0)
      d4 == a[4] - b[4] - (IF d3 < 0 THEN 1 ELSE 0)
      d5 == a[5] - b[5] - (IF d4 < 0 THEN 1 ELSE 0)
  IN  <<d1 % LimbBase, d2 % LimbBase, d3 % LimbBase, d4 % LimbBase, d5 % TopLimbBase>>

\* a % b
RECURSIVE ModU64(_, _)
ModU64(a, b) == IF LessU64(a, b) THEN a ELSE ModU64(SubU64(a, b), b)

\* bits 8 .. 33 of a, which hold every bit of (a >> 8) that a table mask keeps
ShiftRight8(a) ==
  (a[1] \div 256) + a[2] * (LimbBase \div 256)
    + a[3] * ((LimbBase \div 256) * LimbBase)

\* p0 = 11903454645187951493, p1 = 2078231835154824277 and
\* p2 = 5719147207009855033 of hash2
p0 == <<7045, 4917, 7087, 801, 2643>>
p1 == <<7253, 6781, 5621, 3769, 461>>
p2 == <<1593, 8171, 1366, 7420, 1269>>

(***************************************************************************)
(* CPerlinNoise2D: helper functions.                                       *)
(***************************************************************************)
\* arr[i]; an index outside the array reads no element of it
At(arr, i, outside) == IF i \in DOMAIN arr THEN arr[i] ELSE outside

spline(e, x) ==
  CASE e.m_eSpline = "None" -> x
    [] e.m_eSpline = "Cubic" -> spline3(x)
    [] e.m_eSpline = "Quintic" -> spline5(x)

hash(e, x) == At(e.m_nPerm, BitAnd(x, e.m_nMask), -1)

\* a pair that adds half of y
pairHalved(e, x, y) == hash(e, x) + y \div 2

pair(e, x, y) == hash(e, x) + y

\* std::hash<size_t>, the identity in libstdc++ and libc++
StdHash(x) == x

pairstd(e, x, y) == BitXor(StdHash(x) * 2, StdHash(y))

hashstd(e, x) == BitAnd(StdHash(x), e.m_nMask)

\* hash2 without the mask
hash2Unmasked(e, x, y) ==
  LET h == ModU64(AddU64(MulU64(p0, ToU64(x)), MulU64(p1, ToU64(y))), p2)
  IN  ShiftRight8(h)

hash2(e, x, y) ==
  LET h == ModU64(AddU64(MulU64(p0, ToU64(x)), MulU64(p1, ToU64(y))), p2)
  IN  BitAnd(ShiftRight8(h), e.m_nMask)

\* the array c[4] that HashCorners fills, as a function on 0 .. 3
HashCorners(e, x, y) ==
  CASE e.m_eHash = "Permutation" ->
         [k \in 0 .. 3 |->
            hash(e, pair(e, x + (k % 2), y + (k \div 2)))]
    [] e.m_eHash = "LinearCongruential" ->
         [k \in 0 .. 3 |-> hash2(e, x + (k % 2), y + (k \div 2))]
    [] e.m_eHash = "Std" ->
         [k \in 0 .. 3 |->
            hashstd(e, pairstd(e, x + (k % 2), y + (k \div 2)))]

\* a z that reads the rehashed entry for Value noise
zRehashed(e, h, x, y, t) ==
  CASE t = "Perlin" ->
         FAdd(FMul(x, At(e.m_fTable, h, NaN)),
              FMul(y, At(e.m_fTable, hash(e, h), NaN)))
    [] t = "Value" -> At(e.m_fTable, hash(e, h), NaN)
    [] OTHER -> <<0, 0>>

z(e, h, x, y, t) ==
  CASE t = "Perlin" ->
         FAdd(FMul(x, At(e.m_fTable, h, NaN)),
              FMul(y, At(e.m_fTable, hash(e, h), NaN)))
    [] t = "Value" -> At(e.m_fTable, h, NaN)
    [] OTHER -> <<0, 0>>

\* a Lerp that gives the second corner the offset fX instead of fX - 1
LerpSameOffset(e, sX, fX, fY, c0, c1, t) ==
  IF t \in {"Perlin", "Value"}
  THEN lerp(sX, z(e, c0, fX, fY, t), z(e, c1, fX, fY, t))
  ELSE <<0, 0>>

\* c0 and c1 are the elements c[0] and c[1] of the array passed
Lerp(e, sX, fX, fY, c0, c1, t) ==
  IF t \in {"Perlin", "Value"}
  THEN lerp(sX, z(e, c0, fX, fY, t), z(e, c1, FSub(fX, <<1, 0>>), fY, t))
  ELSE <<0, 0>>

(***************************************************************************)
(* CPerlinNoise2D: noise generation functions.                             *)
(***************************************************************************)
\* the two calls of Lerp and the final lerp of noise, from the locals
Interpolate(e, sX, sY, fX, fY, c, t) ==
  lerp(sY, Lerp(e, sX, fX, fY, c[0], c[1], t),
           Lerp(e, sX, fX, FSub(fY, <<1, 0>>), c[2], c[3], t))

\* noise from the fractional parts fX and fY and the corner array c
Smooth(e, fX, fY, c, t) == Interpolate(e, spline(e, fX), spline(e, fY), fX, fY, c, t)

noise(e, x, y, t) ==
  Smooth(e, FSub(x, IntF(Floorf(x))), FSub(y, IntF(Floorf(y))),
         HashCorners(e, Floorf(x), Floorf(y)), t)

\* the loop of generate: octaves i .. n-1, from the locals in g
RECURSIVE Octaves(_, _, _, _, _, _, _)
Octaves(e, g, t, i, n, alpha, beta) ==
  IF i < n
  THEN Octaves(e,
               [sum |-> FAdd(g.sum, FMul(g.amplitude, noise(e, g.x, g.y, t))),
                amplitude |-> FMul(g.amplitude, alpha),
                x |-> FMul(g.x, beta), y |-> FMul(g.y, beta),
                samples |-> g.samples + 1],
               t, i + 1, n, alpha, beta)
  ELSE g

\* the normalisation without the factor 1 - alpha
NormalizeUnscaled(g, t, alpha) ==
  [result |->
     IF t = "Perlin"
     THEN FMul(FDiv(g.sum, FSub(<<1, 0>>, g.amplitude)), FDiv(<<1, 2>>, <<3, 0>>))
     ELSE FDiv(g.sum, FSub(<<1, 0>>, g.amplitude)),
   sum |-> g.sum, amplitude |-> g.amplitude, samples |-> g.samples]

\* what follows the loop of generate, from the locals in g: the value
\* returned, with sum, amplitude and the number of calls of noise made
Normalize(g, t, alpha) ==
  [result |->
     IF t = "Perlin"
     THEN FMul(FDiv(FMul(FSub(<<1, 0>>, alpha), g.sum), FSub(<<1, 0>>, g.amplitude)),
               FDiv(<<1, 2>>, <<3, 0>>))
     ELSE FDiv(FMul(FSub(<<1, 0>>, alpha), g.sum), FSub(<<1, 0>>, g.amplitude)),
   sum |-> g.sum, amplitude |-> g.amplitude, samples |-> g.samples]

generate(e, x, y, t, n, alpha, beta) ==
  Normalize(Octaves(e, [sum |-> <<0, 0>>, amplitude |-> <<1, 0>>, x |-> x, y |-> y,
                        samples |-> 0], t, 0, n, alpha, beta),
            t, alpha)

(***************************************************************************)
(* The calls of the functions that change noise settings, on the engine    *)
(* m_pPerlin.                                                              *)
(***************************************************************************)
\* no engine: the pointer before new CPerlinNoise2D()
nullptr == [m_nSize |-> 0]

Init ==
  /\ filled = Filled
  /\ g_pMain = nullptr
  /\ \E s \in Seeds : m_pPerlin = CPerlinNoise2D(s)
  /\ m_pPerlin2 = nullptr
  /\ last = [fn |-> "CPerlinNoise2D"]

CallDoubleTableSize ==
  \E r \in {DoubleTableSize(m_pPerlin)} :
      /\ m_pPerlin' = r.engine
      /\ last' = [fn |-> "DoubleTableSize", ret |-> r.ret, before |-> m_pPerlin.m_nSize]
      /\ UNCHANGED <<m_pPerlin2, filled, g_pMain>>

\* (doubled: the call before this one was DoubleTableSize; original: the
\* size before that call, or else before this one)
CallHalveTableSize ==
  \E r \in {HalveTableSize(m_pPerlin)} :
      /\ m_pPerlin' = r.engine
      /\ last' = [fn |-> "HalveTableSize", ret |-> r.ret, before |-> m_pPerlin.m_nSize,
                  doubled |-> last.fn = "DoubleTableSize",
                  original |-> IF last.fn = "DoubleTableSize" THEN last.before
                               ELSE m_pPerlin.m_nSize]
      /\ UNCHANGED <<m_pPerlin2, filled, g_pMain>>

CallDefaultTableSize ==
  \E r \in {DefaultTableSize(m_pPerlin)} :
      /\ m_pPerlin' = r.engine
      /\ last' = [fn |-> "DefaultTableSize", ret |-> r.ret, before |-> m_pPerlin.m_nSize]
      /\ UNCHANGED <<m_pPerlin2, filled, g_pMain>>

CallRandomizeTable ==
  \E d \in eDistribution :
    /\ m_pPerlin' = RandomizeTable(m_pPerlin, d)
    /\ last' = [fn |-> "RandomizeTable", d |-> d]
    /\ UNCHANGED <<m_pPerlin2, filled, g_pMain>>

CallSetSpline ==
  \E d \in eSpline :
    /\ m_pPerlin' = SetSpline(m_pPerlin, d)
    /\ last' = [fn |-> "SetSpline"]
    /\ UNCHANGED <<m_pPerlin2, filled, g_pMain>>

CallSetHash ==
  \E d \in eHash :
    /\ m_pPerlin' = SetHash(m_pPerlin, d)
    /\ last' = [fn |-> "SetHash"]
    /\ UNCHANGED <<m_pPerlin2, filled, g_pMain>>

Next ==
  \/ CallDoubleTableSize
  \/ CallHalveTableSize
  \/ CallDefaultTableSize
  \/ CallRandomizeTable
  \/ CallSetSpline
  \/ CallSetHash

Spec == Init /\ [][Next]_vars

(***************************************************************************)
(* A call of generate.  generate is const and reads the size, the mask,    *)
(* the two arrays and the two selectors; the engine it is called on is one *)
(* that the calls above reach: constructed with a seed, resized by         *)
(* HalveTableSize or DoubleTableSize to each of the sizes, refilled by     *)
(* RandomizeTable and set to a spline and a hash.  The arguments of the    *)
(* call are drawn with it.                                                 *)
(***************************************************************************)
\* generate is called with up to MaxOctaves octaves
MaxOctaves == 2

\* the default arguments of generate, alpha = 0.5f and beta = 2.0f
DefaultLacunarity == <<1, -1>>
DefaultPersistence == <<1, 1>>

\* other lacunarity and persistence pairs, with 0 <= alpha < 1 and beta > 1:
\* (0, 1.5), (0.25, 2) and (0.75, 3)
OtherLacunarityPersistence ==
  {<<(<<0, 0>>), (<<3, -1>>)>>, <<(<<1, -2>>), (<<1, 1>>)>>, <<(<<3, -2>>), (<<3, 0>>)>>}

\* the sample points: the centre of the first lattice cell, a point of that
\* cell whose cubic spline has more bits than a float keeps, the centre of
\* the cell whose right and bottom corners wrap around the table, and a
\* point off the diagonal in the cell whose bottom corners wrap around
SamplePoints(e) ==
  {<<Float(1, 2), Float(1, 2)>>,
   <<Float(77, 256), Float(1, 2)>>,
   <<Float(2 * e.m_nSize - 1, 2), Float(2 * e.m_nSize - 1, 2)>>,
   <<Float(1, 4), Float(4 * e.m_nSize - 1, 4)>>}

\* the octaves, lacunarity and persistence of a call: generate(x, y, t, n),
\* as CMain calls it, and generate(x, y, t, 1, alpha, beta)
OctaveArguments ==
  {<<n, DefaultLacunarity, DefaultPersistence>> : n \in 0 .. MaxOctaves}
    \cup {<<1, ab[1], ab[2]>> : ab \in OtherLacunarityPersistence}

\* the call about to be made, and the call that returned r
Calling(p, t, a) ==
  [fn |-> "calling generate", x |-> p[1], y |-> p[2], t |-> t, n |-> a[1],
   alpha |-> a[2], beta |-> a[3]]

Returned(c, r) ==
  [fn |-> "generate", x |-> c.x, y |-> c.y, t |-> c.t, n |-> c.n,
   alpha |-> c.alpha, beta |-> c.beta, ret |-> r.result,
   sum |-> r.sum, samples |-> r.samples]

\* the engine after the constructor, after one to four calls of
\* HalveTableSize and after one and two calls of DoubleTableSize, each then
\* refilled and set to a spline and a hash
InitGenerate ==
  /\ filled = NotFilled
  /\ g_pMain = nullptr
  /\ m_pPerlin2 = nullptr
  /\ \E s \in Seeds :
     \E e256 \in {CPerlinNoise2D(s)} :
     \E e128 \in {HalveTableSize(e256).engine} :
     \E e64 \in {HalveTableSize(e128).engine} :
     \E e32 \in {HalveTableSize(e64).engine} :
     \E e16 \in {HalveTableSize(e32).engine} :
     \E e512 \in {DoubleTableSize(e256).engine} :
     \E e1024 \in {DoubleTableSize(e512).engine} :
     \E e0 \in {e16, e32, e64, e128, e256, e512, e1024}, d \in eDistribution :
     \E e1 \in {RandomizeTable(e0, d)} :
     \E sp \in eSpline, h \in eHash :
       /\ m_pPerlin = SetHash(SetSpline(e1, sp), h)
       /\ \E p \in SamplePoints(e1), t \in eNoise, a \in OctaveArguments :
            last = Calling(p, t, a)

\* a generate that draws from m_stdRandom
CallGenerateDrawing ==
  /\ last.fn = "calling generate"
  /\ last' = Returned(last, generate(m_pPerlin, last.x, last.y, last.t, last.n,
                                     last.alpha, last.beta))
  /\ m_pPerlin' = [m_pPerlin EXCEPT !.m_stdRandom = NextRand(@)]
  /\ UNCHANGED <<m_pPerlin2, filled, g_pMain>>

\* generate is const: the call leaves the engine as it is
CallGenerate ==
  /\ last.fn = "calling generate"
  /\ last' = Returned(last, generate(m_pPerlin, last.x, last.y, last.t, last.n,
                                     last.alpha, last.beta))
  /\ UNCHANGED <<m_pPerlin, m_pPerlin2, filled, g_pMain>>

NextGenerate == CallGenerate

SpecGenerate == InitGenerate /\ [][NextGenerate]_vars

(***************************************************************************)
(* Two engines side by side, constructed with the same seed.  Each of them *)
(* is resized and refilled on its own.                                     *)
(***************************************************************************)
Engine(k) == IF k = 1 THEN m_pPerlin ELSE m_pPerlin2

Assign(k, e) ==
  IF k = 1 THEN m_pPerlin' = e /\ UNCHANGED m_pPerlin2
  ELSE m_pPerlin2' = e /\ UNCHANGED m_pPerlin

InitPair ==
  /\ filled = Filled
  /\ g_pMain = nullptr
  /\ \E s \in Seeds :
       /\ m_pPerlin = CPerlinNoise2D(s)
       /\ m_pPerlin2 = CPerlinNoise2D(s)
  /\ last = [fn |-> "CPerlinNoise2D"]

PairDoubleTableSize ==
  \E k \in 1 .. 2 :
    Assign(k, DoubleTableSize(Engine(k)).engine) /\ UNCHANGED <<last, filled, g_pMain>>

PairHalveTableSize ==
  \E k \in 1 .. 2 :
    Assign(k, HalveTableSize(Engine(k)).engine) /\ UNCHANGED <<last, filled, g_pMain>>

PairDefaultTableSize ==
  \E k \in 1 .. 2 :
    Assign(k, DefaultTableSize(Engine(k)).engine) /\ UNCHANGED <<last, filled, g_pMain>>

PairRandomizeTable ==
  \E k \in 1 .. 2, d \in eDistribution :
    Assign(k, RandomizeTable(Engine(k), d)) /\ UNCHANGED <<last, filled, g_pMain>>

NextPair ==
  \/ PairDoubleTableSize
  \/ PairHalveTableSize
  \/ PairDefaultTableSize
  \/ PairRandomizeTable

SpecPair == InitPair /\ [][NextPair]_vars

(***************************************************************************)
(* The shuffle loop of RandomizePermutation on an array of 1 .. MaxShuffle *)
(* elements, with the values drawn from the PRNG left open: each iteration  *)
(* is a step, and last holds the index i of the loop and the indices j      *)
(* drawn so far.                                                           *)
(***************************************************************************)
MaxShuffle == 5

InitShuffle ==
  /\ filled = NotFilled
  /\ g_pMain = nullptr
  /\ m_pPerlin2 = nullptr
  /\ \E n \in 1 .. MaxShuffle :
       m_pPerlin = For(IdentityPermutation, Blank(1, seed(1), n), 0, n)
  /\ last = [fn |-> "RandomizePermutation", i |-> 0, draws |-> <<>>]

\* one iteration of the second loop, d(m_stdRandom) being the distribution
\* applied to any engine value x
ShuffleStep ==
  /\ last.fn = "RandomizePermutation"
  /\ last.i < m_pPerlin.m_nSize
  /\ \E x \in 1 .. m_pPerlin.m_nSize :
     \E j \in {UniformInt(last.i, m_pPerlin.m_nSize - 1, x)} :
       /\ m_pPerlin' = [m_pPerlin EXCEPT !.m_nPerm = Swap(@, last.i, j),
                                         !.m_stdRandom = x]
       /\ last' = [last EXCEPT !.i = @ + 1, !.draws = Append(@, j)]
  /\ UNCHANGED <<m_pPerlin2, filled, g_pMain>>

NextShuffle == ShuffleStep

SpecShuffle == InitShuffle /\ [][NextShuffle]_vars

(***************************************************************************)
(* A call of noise on any table.  noise reads at most eight entries of     *)
(* m_fTable, those at the four hashed corners c[k] of the cell and at      *)
(* hash(c[k]); the engine has the minimum size, each hash and each spline,  *)
(* and a table that holds any of -1 and 1 at each of these entries and 0    *)
(* elsewhere.  The point is in the cell (0, 0), so that x and y are the     *)
(* fractional offsets.                                                     *)
(***************************************************************************)
\* the entries of m_fTable that noise reads in the cell (nX, nY)
EntriesRead(e, nX, nY) ==
  {HashCorners(e, nX, nY)[k] : k \in 0 .. 3}
    \cup {hash(e, HashCorners(e, nX, nY)[k]) : k \in 0 .. 3}

\* fractional offsets in [0, 1): 0, 1/4, 1/2, 3/4, offsets whose splines
\* have more bits than a float keeps, and the largest float below 1
Offsets ==
  {<<(<<0, 0>>), (<<0, 0>>)>>, <<(<<1, -1>>), (<<1, -1>>)>>,
   <<(<<3, -2>>), (<<1, -2>>)>>, <<(<<77, -8>>), (<<1, -1>>)>>,
   <<(<<127, -8>>), (<<129, -8>>)>>, <<(<<1, -1>>), (<<16777215, -24>>)>>}

InitNoise ==
  /\ filled = NotFilled
  /\ g_pMain = nullptr
  /\ m_pPerlin2 = nullptr
  /\ \E s \in Seeds, sp \in eSpline, h \in eHash :
     \E e \in {SetHash(SetSpline(Initialize(Blank(s, seed(s), m_nMinTableSize)), sp), h)} :
     \E g \in [EntriesRead(e, 0, 0) -> {<<-1, 0>>, <<1, 0>>}] :
       m_pPerlin = [e EXCEPT !.m_fTable =
                      [i \in 0 .. e.m_nSize - 1 |->
                         IF i \in DOMAIN g THEN g[i] ELSE <<0, 0>>]]
  /\ \E p \in Offsets, t \in {"Perlin", "Value"} :
       last = [fn |-> "calling noise", x |-> p[1], y |-> p[2], t |-> t]

\* noise is const: the call leaves the engine as it is
CallNoise ==
  /\ last.fn = "calling noise"
  /\ last' = [fn |-> "noise", x |-> last.x, y |-> last.y, t |-> last.t,
              ret |-> noise(m_pPerlin, last.x, last.y, last.t)]
  /\ UNCHANGED <<m_pPerlin, m_pPerlin2, filled, g_pMain>>

NextNoise == CallNoise

SpecNoise == InitNoise /\ [][NextNoise]_vars

(***************************************************************************)
(* RandomizeTable(Midpoint) call by call, on a newly allocated table of    *)
(* each size, after m_stdRandom.seed(m_nSeed).  last.stack holds the calls  *)
(* of RandomizeTableMidpoint(i, j, alpha) that are still to be made, the    *)
(* next one first, and last.writes counts the assignments made to each     *)
(* entry.  The asserts are evaluated and recorded; the calls go on as in a  *)
(* build with NDEBUG.                                                      *)
(***************************************************************************)
InitMidpoint ==
  /\ filled = NotFilled
  /\ g_pMain = nullptr
  /\ m_pPerlin2 = nullptr
  /\ \E s \in Seeds, n \in TableSizes :
       /\ m_pPerlin = [Blank(s, seed(s), n) EXCEPT !.m_eDistribution = "Midpoint"]
       /\ last = [fn |-> "RandomizeTable", stack |-> <<>>,
                  writes |-> [k \in 0 .. n - 1 |-> 0]]

\* what RandomizeTableMidpoint() leaves on the call stack: the call for the
\* whole table, at recursion depth k = 0, with the two ends counted as written
WholeTableCall ==
  [fn |-> "RandomizeTableMidpoint()",
   stack |-> <<[i |-> 0, j |-> m_pPerlin.m_nSize - 1, alpha |-> <<1, -1>>, k |-> 0]>>,
   writes |-> [last.writes EXCEPT ![0] = @ + 1,
                                  ![m_pPerlin.m_nSize - 1] = @ + 1]]

\* RandomizeTableMidpoint(): the two ends, then the call for the whole table
CallRandomizeTableMidpoint ==
  /\ last.fn = "RandomizeTable"
  /\ m_pPerlin' = [m_pPerlin EXCEPT !.m_fTable[0] = <<1, 0>>,
                                    !.m_fTable[m_pPerlin.m_nSize - 1] = <<-1, 0>>]
  /\ last' = WholeTableCall
  /\ UNCHANGED <<m_pPerlin2, filled, g_pMain>>

\* recursive calls that leave out the entry after mid
RecursiveCallsSkipping(c, mid) ==
  <<[i |-> c.i, j |-> mid, alpha |-> FMul(c.alpha, <<1, -1>>), k |-> c.k + 1],
    [i |-> mid + 1, j |-> c.j, alpha |-> FMul(c.alpha, <<1, -1>>), k |-> c.k + 1]>>

\* recursive calls that pass alpha on as it is
RecursiveCallsSameAlpha(c, mid) ==
  <<[i |-> c.i, j |-> mid, alpha |-> c.alpha, k |-> c.k + 1],
    [i |-> mid, j |-> c.j, alpha |-> c.alpha, k |-> c.k + 1]>>

\* the two recursive calls of the call c, after alpha *= 0.5f, one level
\* deeper
RecursiveCalls(c, mid) ==
  <<[i |-> c.i, j |-> mid, alpha |-> FMul(c.alpha, <<1, -1>>), k |-> c.k + 1],
    [i |-> mid, j |-> c.j, alpha |-> FMul(c.alpha, <<1, -1>>), k |-> c.k + 1]>>

\* the asserts of the call c, in the order of the code; the third is
\* evaluated only when there is a midpoint
MidpointAsserts(e, c) ==
  <<c.i < c.j /\ c.j < e.m_nSize,
    FLt(c.alpha, <<0, 0>>),
    c.j > c.i + 1 => (c.i < (c.i + c.j) \div 2 /\ (c.i + c.j) \div 2 < c.j)>>

\* the control of the call c with midpoint mid: the asserts, whether the two
\* ends were written, the write of the midpoint and the calls it makes
MidpointCall(c, mid) ==
  [fn |-> "RandomizeTableMidpoint", i |-> c.i, j |-> c.j, mid |-> mid,
   alpha |-> c.alpha, k |-> c.k,
   asserts |-> MidpointAsserts(m_pPerlin, c),
   endsWritten |-> last.writes[c.i] > 0 /\ last.writes[c.j] > 0,
   stack |-> IF c.j > c.i + 1
             THEN RecursiveCalls(c, mid) \o Tail(last.stack)
             ELSE Tail(last.stack),
   writes |-> IF c.j > c.i + 1
              THEN [last.writes EXCEPT ![mid] = @ + 1]
              ELSE last.writes]

\* a call of RandomizeTableMidpoint(i, j, alpha) is to be made
CallPending ==
  /\ last.fn \in {"RandomizeTableMidpoint()", "RandomizeTableMidpoint"}
  /\ last.stack # <<>>

\* RandomizeTableMidpoint(i, j, alpha): the next call of the stack
CallRandomizeTableMidpointRec ==
  /\ CallPending
  /\ \E c \in {Head(last.stack)}, mid \in {(Head(last.stack).i + Head(last.stack).j) \div 2} :
       /\ m_pPerlin' = IF c.j > c.i + 1
                       THEN MidpointEntry(m_pPerlin, c.i, c.j, mid, c.alpha)
                       ELSE m_pPerlin
       /\ last' = MidpointCall(c, mid)
  /\ UNCHANGED <<m_pPerlin2, filled, g_pMain>>

NextMidpoint == CallRandomizeTableMidpoint \/ CallRandomizeTableMidpointRec

SpecMidpoint == InitMidpoint /\ [][NextMidpoint]_vars

\* the control flow of NextMidpoint: what a step does to the call stack
MidpointControl ==
  \/ last.fn = "RandomizeTable" /\ last' = WholeTableCall
  \/ /\ CallPending
     /\ last' = MidpointCall(Head(last.stack),
                             (Head(last.stack).i + Head(last.stack).j) \div 2)

\* the program runs on: a call that is to be made is made
SpecMidpointFair == SpecMidpoint /\ WF_last(MidpointControl)

(***************************************************************************)
(* Two engines that differ in the contents of m_nPerm only: the second     *)
(* holds the permutation that the shuffle writes for the next seed.        *)
(***************************************************************************)
\* the engine e with the permutation of the seed after its own
OtherPermutation(e) ==
  [e EXCEPT !.m_nPerm =
     ShuffleLoops(Blank(e.m_nSeed + 1, seed(e.m_nSeed + 1), e.m_nSize)).m_nPerm]

\* the engine after the constructor and after resizes, refilled and set to
\* a spline and a hash, and a call of generate(x, y, t, n) about to be made
InitPermutations ==
  /\ filled = NotFilled
  /\ g_pMain = nullptr
  /\ \E s \in Seeds :
     \E e256 \in {CPerlinNoise2D(s)} :
     \E e64 \in {HalveTableSize(HalveTableSize(e256).engine).engine} :
     \E e16 \in {HalveTableSize(HalveTableSize(e64).engine).engine} :
     \E e1024 \in {DoubleTableSize(DoubleTableSize(e256).engine).engine} :
     \E e0 \in {e16, e64, e256, e1024}, d \in eDistribution :
     \E e1 \in {RandomizeTable(e0, d)} :
     \E sp \in eSpline, h \in eHash :
       /\ m_pPerlin = SetHash(SetSpline(e1, sp), h)
       /\ m_pPerlin2 = OtherPermutation(SetHash(SetSpline(e1, sp), h))
       /\ \E p \in SamplePoints(e1), t \in {"Perlin", "Value"}, n \in 1 .. MaxOctaves :
            last = Calling(p, t, <<n, DefaultLacunarity, DefaultPersistence>>)

\* generate on both engines; ret2 is the value of the second
CallGenerateBoth ==
  /\ last.fn = "calling generate"
  /\ \E r \in {generate(m_pPerlin, last.x, last.y, last.t, last.n,
                        last.alpha, last.beta)},
        r2 \in {generate(m_pPerlin2, last.x, last.y, last.t, last.n,
                         last.alpha, last.beta)} :
       last' = [fn |-> "generate", x |-> last.x, y |-> last.y, t |-> last.t,
                n |-> last.n, alpha |-> last.alpha, beta |-> last.beta,
                ret |-> r.result, ret2 |-> r2.result]
  /\ UNCHANGED <<m_pPerlin, m_pPerlin2, filled, g_pMain>>

NextPermutations == CallGenerateBoth

SpecPermutations == InitPermutations /\ [][NextPermutations]_vars

(***************************************************************************)
(* The application.  g_pMain is the CMain object: the members of CMain.h   *)
(* that the menu response functions read and write.  The bitmap is kept as *)
(* what it was generated from: GenerateNoiseBitmap(eNoise) sets each pixel *)
(* to the value of generate, which is a function of the engine, the noise  *)
(* type, the octaves and the scale.  Each menu response function is one    *)
(* step; last holds its name, what it returned, whether it generated the   *)
(* bitmap, the octave count that it passed to generate and the octave      *)
(* count before the call.  The commands                                    *)
(* are taken in two groups, those that change the settings and those that  *)
(* change the selections; the commands that change the table size are in   *)
(* both.                                                                   *)
(***************************************************************************)
m_nDefOctaves == 4
m_nMinOctaves == 1
m_nMaxOctaves == 8

\* 64.0f, 8.0f and 512.0f
m_fDefScale == <<1, 6>>
m_fMinScale == <<1, 3>>
m_fMaxScale == <<1, 9>>

\* the largest size_t, which 0 - 1 wraps around to; it stands as the largest
\* integer of the model
SIZE_MAX == 2147483647

\* the selections that CMain holds when it is constructed: those of the
\* engine it creates
InitialSelections ==
  [m_eDistr |-> "Uniform", m_eHash |-> "Permutation", m_eSpline |-> "Cubic"]

\* the bitmap of CreateBitmap, cleared to white
White == [t |-> "White"]

\* CMain::CMain and the member initializers of CMain.h
CMain ==
  [m_eNoise |-> "None", m_nOctaves |-> m_nDefOctaves, m_fScale |-> m_fDefScale,
   m_eDistr |-> InitialSelections.m_eDistr, m_eHash |-> InitialSelections.m_eHash,
   m_eSpline |-> InitialSelections.m_eSpline, m_pBitmap |-> White]

\* what GenerateNoiseBitmap(t) draws: generate(x, y, t, m_nOctaves) on the
\* engine e at the pixels scaled by m_fScale; the arrays of e are those of
\* its seed, size and distribution
Drawn(main, e, t) ==
  [t |-> t, octaves |-> main.m_nOctaves, scale |-> main.m_fScale,
   m_nSize |-> e.m_nSize, m_nSeed |-> e.m_nSeed,
   m_eDistribution |-> e.m_eDistribution, m_eHash |-> e.m_eHash,
   m_eSpline |-> e.m_eSpline]

\* GenerateNoiseBitmap(eNoise) on the engine e
GenerateNoiseBitmap(main, e, t) ==
  [main EXCEPT !.m_eNoise = t, !.m_pBitmap = Drawn(main, e, t)]

\* what a function that returns bool returned, as last records it; a void
\* function is recorded as "void"
Returns(b) == IF b THEN "true" ELSE "false"

\* the record of a call that generated the bitmap, and of one that did not
Generated(fn, ret, main) ==
  [fn |-> fn, ret |-> ret, generated |-> TRUE, octaves |-> main.m_nOctaves,
   before |-> g_pMain.m_nOctaves]

NotGenerated(fn, ret) ==
  [fn |-> fn, ret |-> ret, generated |-> FALSE, octaves |-> 0,
   before |-> g_pMain.m_nOctaves]

\* the engine and the CMain object after a call that ends with
\* GenerateNoiseBitmap()
Regenerate(fn, ret, main, e) ==
  /\ m_pPerlin' = e
  /\ g_pMain' = GenerateNoiseBitmap(main, e, main.m_eNoise)
  /\ last' = Generated(fn, ret, main)
  /\ UNCHANGED <<m_pPerlin2, filled>>

\* m_nOctaves + 1 and m_nOctaves - 1 in size_t
Incremented(n) == IF n = SIZE_MAX THEN 0 ELSE n + 1

Decremented(n) == IF n = 0 THEN SIZE_MAX ELSE n - 1

\* std::min<size_t>(m_nOctaves + 1, m_nMaxOctaves)
IncreaseOctaves(n) ==
  IF m_nMaxOctaves < Incremented(n) THEN m_nMaxOctaves ELSE Incremented(n)

\* m_nOctaves - 1 without the bound m_nMinOctaves
DecreaseOctavesUnclamped(n) == Decremented(n)

\* std::max<size_t>(m_nMinOctaves, m_nOctaves - 1)
DecreaseOctaves(n) == Max(m_nMinOctaves, Decremented(n))

IncreaseScale(s) == FMin(FMul(<<1, 1>>, s), m_fMaxScale)

DecreaseScale(s) == FMax(m_fMinScale, FDiv(s, <<1, 1>>))

\* CPerlinNoise2D::Randomize(): a new seed from the clock, then the table and
\* the permutation refilled from it, with the selections as they are
Randomize(e, s) ==
  Then(RandomizeTable([e EXCEPT !.m_nSeed = s], e.m_eDistribution),
       RandomizePermutation)

InitMain ==
  /\ filled = Filled
  /\ m_pPerlin2 = nullptr
  /\ \E s \in Seeds : m_pPerlin = CPerlinNoise2D(s)
  /\ g_pMain = CMain
  /\ last = NotGenerated("CMain", "void")

CMainGenerateNoiseBitmap ==
  \E t \in {"Perlin", "Value"} :
    /\ g_pMain' = GenerateNoiseBitmap(g_pMain, m_pPerlin, t)
    /\ last' = Generated("GenerateNoiseBitmap", "void", g_pMain)
    /\ UNCHANGED <<m_pPerlin, m_pPerlin2, filled>>

CMainIncreaseOctaves ==
  Regenerate("IncreaseOctaves", "void",
             [g_pMain EXCEPT !.m_nOctaves = IncreaseOctaves(@)], m_pPerlin)

CMainDecreaseOctaves ==
  Regenerate("DecreaseOctaves", "void",
             [g_pMain EXCEPT !.m_nOctaves = DecreaseOctaves(@)], m_pPerlin)

CMainIncreaseScale ==
  Regenerate("IncreaseScale", "void",
             [g_pMain EXCEPT !.m_fScale = IncreaseScale(@)], m_pPerlin)

CMainDecreaseScale ==
  Regenerate("DecreaseScale", "void",
             [g_pMain EXCEPT !.m_fScale = DecreaseScale(@)], m_pPerlin)

\* a resize of the engine r.engine that returned r.ret: the bitmap is
\* generated when it returned true
Resized(fn, r) ==
  IF r.ret THEN Regenerate(fn, "void", g_pMain, r.engine)
  ELSE /\ m_pPerlin' = r.engine
       /\ last' = NotGenerated(fn, "void")
       /\ UNCHANGED <<m_pPerlin2, filled, g_pMain>>

CMainIncreaseTableSize == Resized("IncreaseTableSize", DoubleTableSize(m_pPerlin))

CMainDecreaseTableSize == Resized("DecreaseTableSize", HalveTableSize(m_pPerlin))

\* a Reset that leaves the scale as it is
CMainResetKeepingScale ==
  \E r \in {DefaultTableSize(m_pPerlin)} :
    Regenerate("Reset", Returns(r.ret),
               [g_pMain EXCEPT !.m_nOctaves = m_nDefOctaves], r.engine)

\* Reset(): ret records what DefaultTableSize returned, which Reset drops
CMainReset ==
  \E r \in {DefaultTableSize(m_pPerlin)} :
    Regenerate("Reset", Returns(r.ret),
               [g_pMain EXCEPT !.m_nOctaves = m_nDefOctaves,
                               !.m_fScale = m_fDefScale], r.engine)

\* UpdateDistribution() after main holds the distribution to fill with
UpdateDistribution(fn, ret, main, e) ==
  Regenerate(fn, ret, main, RandomizeTable(e, main.m_eDistr))

\* a SetDistribution that refills without comparing
CMainSetDistributionAlways ==
  \E d \in eDistribution :
    UpdateDistribution("SetDistribution", Returns(TRUE),
                       [g_pMain EXCEPT !.m_eDistr = d], m_pPerlin)

CMainSetDistribution ==
  \E d \in eDistribution :
    IF g_pMain.m_eDistr # d
    THEN UpdateDistribution("SetDistribution", Returns(TRUE),
                            [g_pMain EXCEPT !.m_eDistr = d], m_pPerlin)
    ELSE /\ last' = NotGenerated("SetDistribution", Returns(FALSE))
         /\ UNCHANGED <<m_pPerlin, m_pPerlin2, filled, g_pMain>>

CMainRandomize ==
  \E s \in Seeds :
    UpdateDistribution("Randomize", "void", g_pMain, Randomize(m_pPerlin, s))

CMainSetSpline ==
  \E d \in eSpline :
    Regenerate("SetSpline", "void", [g_pMain EXCEPT !.m_eSpline = d],
               SetSpline(m_pPerlin, d))

\* a SetHash that leaves the engine's selection as it is
CMainSetHashMirrorOnly ==
  \E d \in eHash :
    Regenerate("SetHash", "void", [g_pMain EXCEPT !.m_eHash = d], m_pPerlin)

CMainSetHash ==
  \E d \in eHash :
    Regenerate("SetHash", "void", [g_pMain EXCEPT !.m_eHash = d],
               SetHash(m_pPerlin, d))

\* the commands of the Settings menu and the Generate menu
NextSettings ==
  \/ CMainGenerateNoiseBitmap
  \/ CMainIncreaseOctaves
  \/ CMainDecreaseOctaves
  \/ CMainIncreaseScale
  \/ CMainDecreaseScale
  \/ CMainIncreaseTableSize
  \/ CMainDecreaseTableSize
  \/ CMainReset

SpecSettings == InitMain /\ [][NextSettings]_vars

\* the commands that select a distribution, a hash and a spline, Randomize
\* and the commands that change the table size
NextSelections ==
  \/ CMainSetDistribution
  \/ CMainRandomize
  \/ CMainSetSpline
  \/ CMainSetHash
  \/ CMainIncreaseTableSize
  \/ CMainDecreaseTableSize
  \/ CMainReset

SpecSelections == InitMain /\ [][NextSelections]_vars

(***************************************************************************)
(* Properties.                                                             *)
(***************************************************************************)
\* the last call was generate with the default lacunarity and persistence
DefaultGenerate ==
  /\ last.fn = "generate"
  /\ last.alpha = DefaultLacunarity
  /\ last.beta = DefaultPersistence

\* C1: every value that generate returns for n >= 1 octaves with the default
\* lacunarity and persistence lies in [-1, 1], in every engine state that
\* resizing, RandomizeTable, SetHash and SetSpline reach.
GenerateInRange ==
  (DefaultGenerate /\ last.n >= 1) =>
    (FLe(<<-1, 0>>, last.ret) /\ FLe(last.ret, <<1, 0>>))

\* C2: the table size is always a power of two between 16 and 1024.
SizeIsLegal ==
  /\ isPowerOf2(m_pPerlin.m_nSize)
  /\ 16 <= m_pPerlin.m_nSize
  /\ m_pPerlin.m_nSize <= 1024

\* the size was halved down to the minimum
HalvedToMinimum ==
  /\ last.fn = "HalveTableSize"
  /\ last.ret
  /\ m_pPerlin.m_nSize = 16

\* C3: m_nPerm[0 .. size-1] is a bijection on 0 .. size-1, after the
\* construction and after every resize.
PermutationIsBijection ==
  /\ DOMAIN m_pPerlin.m_nPerm = 0 .. m_pPerlin.m_nSize - 1
  /\ {m_pPerlin.m_nPerm[i] : i \in 0 .. m_pPerlin.m_nSize - 1}
       = 0 .. m_pPerlin.m_nSize - 1

\* a resize shuffled a permutation of 512 elements away from the identity
ShuffledAfterResize ==
  /\ last.fn = "DoubleTableSize"
  /\ last.ret
  /\ m_pPerlin.m_nSize = 512
  /\ \E i \in 0 .. 511 : m_pPerlin.m_nPerm[i] # i

\* C4: every entry of m_fTable[0 .. size-1] lies in [-1, 1], for each of the
\* six distributions, after the construction and after every resize.
TableInRange ==
  /\ DOMAIN m_pPerlin.m_fTable = 0 .. m_pPerlin.m_nSize - 1
  /\ \A i \in 0 .. m_pPerlin.m_nSize - 1 :
       /\ FLe(<<-1, 0>>, m_pPerlin.m_fTable[i])
       /\ FLe(m_pPerlin.m_fTable[i], <<1, 0>>)

\* RandomizeTable(Normal) wrote an entry that the clamp held at 1
NormalClamped ==
  /\ last.fn = "RandomizeTable"
  /\ m_pPerlin.m_eDistribution = "Normal"
  /\ \E i \in 0 .. m_pPerlin.m_nSize - 1 : m_pPerlin.m_fTable[i] = <<1, 0>>

\* C5: DoubleTableSize and HalveTableSize return true exactly when the size
\* changed; at the maximum, respectively the minimum, they return false and
\* leave the whole engine as it was.
ResizeReturnsChanged ==
  [][last'.fn \in {"DoubleTableSize", "HalveTableSize"} =>
       /\ last'.ret <=> (m_pPerlin'.m_nSize # m_pPerlin.m_nSize)
       /\ (last'.fn = "DoubleTableSize" /\ m_pPerlin.m_nSize = 1024) => ~last'.ret
       /\ (last'.fn = "HalveTableSize" /\ m_pPerlin.m_nSize = 16) => ~last'.ret
       /\ ~last'.ret => m_pPerlin' = m_pPerlin]_vars

\* DoubleTableSize was called at the maximum size and returned false
DoubleAtMaximum ==
  /\ last.fn = "DoubleTableSize"
  /\ ~last.ret
  /\ last.before = 1024
  /\ m_pPerlin.m_nSize = 1024

\* C6 as stated: DoubleTableSize followed immediately by HalveTableSize
\* restores the original table size, from every reachable engine state.
DoubleHalveRestores ==
  (last.fn = "HalveTableSize" /\ last.doubled) =>
    m_pPerlin.m_nSize = last.original

\* C6: DoubleTableSize followed immediately by HalveTableSize restores the
\* original table size when that size is below the maximum; at the maximum
\* the doubling changes nothing and the halving leaves half the maximum.
DoubleHalveRestoresBelowMaximum ==
  (last.fn = "HalveTableSize" /\ last.doubled) =>
    /\ last.original < 1024 => m_pPerlin.m_nSize = last.original
    /\ last.original = 1024 => m_pPerlin.m_nSize = 512

\* a doubling and the halving after it brought the size back
DoubledThenHalved ==
  /\ last.fn = "HalveTableSize"
  /\ last.doubled
  /\ last.original = 64
  /\ last.before = 128
  /\ m_pPerlin.m_nSize = 64

\* the engines agree on size, seed and distribution (and on the selectors)
SameSelections ==
  /\ m_pPerlin.m_nSize = m_pPerlin2.m_nSize
  /\ m_pPerlin.m_nSeed = m_pPerlin2.m_nSeed
  /\ m_pPerlin.m_eDistribution = m_pPerlin2.m_eDistribution
  /\ m_pPerlin.m_eHash = m_pPerlin2.m_eHash
  /\ m_pPerlin.m_eSpline = m_pPerlin2.m_eSpline

\* C7: two engines with the same size, seed, distribution, hash and spline
\* hold the same m_fTable and m_nPerm, and generate returns the same value
\* on both, whichever hash and spline the two are set to.
Determinism ==
  SameSelections =>
    /\ m_pPerlin.m_fTable = m_pPerlin2.m_fTable
    /\ m_pPerlin.m_nPerm = m_pPerlin2.m_nPerm
    /\ \A h \in eHash, sp \in eSpline, p \in SamplePoints(m_pPerlin), t \in eNoise :
         generate(SetHash(SetSpline(m_pPerlin, sp), h), p[1], p[2], t,
                  MaxOctaves, DefaultLacunarity, DefaultPersistence).result
           = generate(SetHash(SetSpline(m_pPerlin2, sp), h), p[1], p[2], t,
                      MaxOctaves, DefaultLacunarity, DefaultPersistence).result

\* the engines agree after different calls: one was last refilled by
\* RandomizeTable, the other by a resize, which leaves another PRNG state
SameSelectionsOtherHistory ==
  /\ SameSelections
  /\ m_pPerlin.m_nSize = 512
  /\ m_pPerlin.m_eDistribution = "Midpoint"
  /\ m_pPerlin.m_stdRandom # m_pPerlin2.m_stdRandom

\* C8: generate with no octaves samples no noise, leaves the sum at 0 and
\* returns 0.
GenerateZeroOctaves ==
  (last.fn = "generate" /\ last.n = 0) =>
    /\ last.samples = 0
    /\ last.sum = <<0, 0>>
    /\ last.ret = <<0, 0>>

\* the last call was generate with one octave of Perlin or Value noise
OneOctave ==
  /\ last.fn = "generate"
  /\ last.n = 1
  /\ last.t \in {"Perlin", "Value"}

\* w for Value noise and w times 4.0f/3.0f for Perlin noise
Rescaled(w) ==
  IF last.t = "Perlin" THEN FMul(w, FDiv(<<1, 2>>, <<3, 0>>)) ELSE w

OneOctaveFrom(w, q) ==
  /\ last.ret = Rescaled(FDiv(FMul(q, w), q))
  /\ q[1] = 1 => last.ret = Rescaled(w)

RECURSIVE OctaveCoordinate(_, _, _)
OctaveCoordinate(x, beta, i) ==
  IF i = 0 THEN x ELSE FMul(OctaveCoordinate(x, beta, i - 1), beta)

\* the lattice points (floorf(x), floorf(y)) of the octaves of the last call
LastLattice ==
  {<<Floorf(OctaveCoordinate(last.x, last.beta, i)),
     Floorf(OctaveCoordinate(last.y, last.beta, i))>> : i \in 0 .. last.n - 1}

\* i indexes an array of m_nSize elements
InTable(i) == i \in 0 .. m_pPerlin.m_nSize - 1

\* C10: the four indices that HashCorners writes lie in [0, size), for each
\* hash and at lattice points where x+1 and y+1 wrap around; so they pass
\* the assert of z, and the reads of m_nPerm and m_fTable, with the rehash
\* in z, are in bounds.
HashInBounds ==
  last.fn = "generate" =>
    \A q \in LastLattice :
      /\ \A x \in {q[1], q[1] + 1} :
           /\ BitAnd(x, m_pPerlin.m_nMask) \in DOMAIN m_pPerlin.m_nPerm
           /\ BitAnd(pair(m_pPerlin, x, q[2]), m_pPerlin.m_nMask)
                \in DOMAIN m_pPerlin.m_nPerm
           /\ BitAnd(pair(m_pPerlin, x, q[2] + 1), m_pPerlin.m_nMask)
                \in DOMAIN m_pPerlin.m_nPerm
      /\ \A k \in 0 .. 3 :
           LET h == HashCorners(m_pPerlin, q[1], q[2])[k]
           IN  /\ InTable(h)
               /\ h = BitAnd(h, m_pPerlin.m_nMask)
               /\ h \in DOMAIN m_pPerlin.m_fTable
               /\ BitAnd(h, m_pPerlin.m_nMask) \in DOMAIN m_pPerlin.m_nPerm
               /\ InTable(hash(m_pPerlin, h))
               /\ hash(m_pPerlin, h) \in DOMAIN m_pPerlin.m_fTable

\* generate sampled the last cell of the table, whose corners x+1 and y+1
\* wrap around, with the linear congruential hash
WrappedLinearCongruential ==
  /\ last.fn = "generate"
  /\ last.n >= 1
  /\ m_pPerlin.m_eHash = "LinearCongruential"
  /\ Floorf(last.x) = m_pPerlin.m_nSize - 1
  /\ Floorf(last.y) = m_pPerlin.m_nSize - 1

\* C11: generate, with noise and the helpers it calls (spline, HashCorners,
\* hash, hash2, hashstd, pair, pairstd, z, Lerp), leaves the whole engine as
\* it was: size, mask, permutation, table, seed, PRNG state and the hash,
\* spline and distribution selectors.
GenerateReadOnly ==
  [][last'.fn = "generate" =>
       /\ m_pPerlin' = m_pPerlin
       /\ m_pPerlin2' = m_pPerlin2]_vars

\* generate returned after two octaves, each sampled through the quintic
\* spline and the linear congruential hash
GenerateSampledTwice ==
  /\ last.fn = "generate"
  /\ last.samples = 2
  /\ last.t = "Perlin"
  /\ m_pPerlin.m_eSpline = "Quintic"
  /\ m_pPerlin.m_eHash = "LinearCongruential"

\* the value of the interpolation formula of noise at the fractional
\* offsets (fX, fY) of the lattice cell (nX, nY)
CellValue(e, nX, nY, fX, fY, t) == Smooth(e, fX, fY, HashCorners(e, nX, nY), t)

\* x - floorf(x), the fractional offset that noise computes
Frac(x) == FSub(x, IntF(Floorf(x)))

\* generate sampled Perlin or Value noise in the cell of (last.x, last.y)
SampledCell ==
  /\ last.fn = "generate"
  /\ last.n >= 1
  /\ last.t \in {"Perlin", "Value"}

\* the values at the right edge of that cell (offset 1) and at the left
\* edge of the cell to its right (offset 0), and the same for the bottom
\* edge and the cell below
RightEdge ==
  CellValue(m_pPerlin, Floorf(last.x), Floorf(last.y), <<1, 0>>, Frac(last.y), last.t)
LeftEdgeOfNext ==
  CellValue(m_pPerlin, Floorf(last.x) + 1, Floorf(last.y), <<0, 0>>, Frac(last.y), last.t)
BottomEdge ==
  CellValue(m_pPerlin, Floorf(last.x), Floorf(last.y), Frac(last.x), <<1, 0>>, last.t)
TopEdgeOfNext ==
  CellValue(m_pPerlin, Floorf(last.x), Floorf(last.y) + 1, Frac(last.x), <<0, 0>>, last.t)

\* C12 as stated: the interpolation formula at fractional offset 1 of a
\* cell equals the value at offset 0 of the adjacent cell, to the right and
\* below, for both noise kinds, the three hashes and the three splines.
LatticeContinuityExact ==
  SampledCell => (RightEdge = LeftEdgeOfNext /\ BottomEdge = TopEdgeOfNext)

\* |a - b| <= 2^-20
Near(a, b) == FLe(FSub(a, b), <<1, -20>>) /\ FLe(FSub(b, a), <<1, -20>>)

\* adjacent cells hash their shared corners to the same indices
SharedCorners(e, nX, nY) ==
  /\ HashCorners(e, nX, nY)[1] = HashCorners(e, nX + 1, nY)[0]
  /\ HashCorners(e, nX, nY)[3] = HashCorners(e, nX + 1, nY)[2]
  /\ HashCorners(e, nX, nY)[2] = HashCorners(e, nX, nY + 1)[0]
  /\ HashCorners(e, nX, nY)[3] = HashCorners(e, nX, nY + 1)[1]

\* C12: adjacent cells share the hashed corners, the spline is 0 at offset
\* 0 and 1 at offset 1, and the interpolation formula at fractional offset
\* 1 of a cell is within 2^-20 of the value at offset 0 of the adjacent
\* cell: at offset 1 lerp yields a + (b - a) rounded to a float, which need
\* not be b.
LatticeContinuityRounded ==
  SampledCell =>
    /\ SharedCorners(m_pPerlin, Floorf(last.x), Floorf(last.y))
    /\ spline(m_pPerlin, <<0, 0>>) = <<0, 0>>
    /\ spline(m_pPerlin, <<1, 0>>) = <<1, 0>>
    /\ Near(RightEdge, LeftEdgeOfNext)
    /\ Near(BottomEdge, TopEdgeOfNext)

\* a cell whose right edge value is not that of the next cell: rounding
\* a + (b - a) changed it
EdgeRounded ==
  /\ SampledCell
  /\ RightEdge # LeftEdgeOfNext
  /\ Near(RightEdge, LeftEdgeOfNext)

\* the sequences of k draws, the draw of iteration i being in [i, n-1]
RECURSIVE DrawSequences(_, _)
DrawSequences(n, k) ==
  IF k = 0 THEN {<<>>}
  ELSE {Append(d, j) : d \in DrawSequences(n, k - 1), j \in (k - 1) .. (n - 1)}

\* the array after the swaps of the first k draws of d, from the array a
RECURSIVE Swapped(_, _, _)
Swapped(a, d, k) ==
  IF k = 0 THEN a ELSE Swap(Swapped(a, d, k - 1), k - 1, d[k])

RECURSIVE Factorial(_)
Factorial(n) == IF n = 0 THEN 1 ELSE n * Factorial(n - 1)

\* the identity permutation that the first loop writes
Identity(n) == [i \in 0 .. n - 1 |-> i]

\* C13: the shuffle loop maps the draw sequences (j of iteration i drawn
\* from [i, size-1]) one-to-one onto the size! permutations: the draws are
\* in range, the array is a permutation, no other draw sequence yields the
\* same array, and there are size! sequences of size draws.
ShuffleIsBijection ==
  last.fn = "RandomizePermutation" =>
    /\ last.draws \in DrawSequences(m_pPerlin.m_nSize, last.i)
    /\ m_pPerlin.m_nPerm = Swapped(Identity(m_pPerlin.m_nSize), last.draws, last.i)
    /\ {m_pPerlin.m_nPerm[i] : i \in 0 .. m_pPerlin.m_nSize - 1}
         = 0 .. m_pPerlin.m_nSize - 1
    /\ \A d \in DrawSequences(m_pPerlin.m_nSize, last.i) :
         Swapped(Identity(m_pPerlin.m_nSize), d, last.i) = m_pPerlin.m_nPerm
           => d = last.draws
    /\ last.i = m_pPerlin.m_nSize =>
         Cardinality(DrawSequences(m_pPerlin.m_nSize, last.i))
           = Factorial(m_pPerlin.m_nSize)

\* the loop ended on four elements with the reversed array
ShuffledToReverse ==
  /\ last.fn = "RandomizePermutation"
  /\ m_pPerlin.m_nSize = 4
  /\ last.i = 4
  /\ m_pPerlin.m_nPerm = [i \in 0 .. 3 |-> 3 - i]

\* C14: noise returns a value in [-1, 1], for Perlin and Value noise, each
\* spline and each hash, fractional offsets in [0, 1) and tables with
\* entries in [-1, 1]: the assert before its return holds.
NoiseInRange ==
  last.fn = "noise" =>
    (FLe(<<-1, 0>>, last.ret) /\ FLe(last.ret, <<1, 0>>))

\* C15: after the construction and after each call of DoubleTableSize,
\* HalveTableSize and DefaultTableSize, m_nMask is m_nSize - 1 and m_nPerm
\* and m_fTable have exactly m_nSize elements each.
MaskAndArraysFitSize ==
  /\ m_pPerlin.m_nMask = m_pPerlin.m_nSize - 1
  /\ DOMAIN m_pPerlin.m_nPerm = 0 .. m_pPerlin.m_nSize - 1
  /\ DOMAIN m_pPerlin.m_fTable = 0 .. m_pPerlin.m_nSize - 1

\* DefaultTableSize brought the size back from the maximum
DefaultFromMaximum ==
  /\ last.fn = "DefaultTableSize"
  /\ last.ret
  /\ last.before = 1024
  /\ m_pPerlin.m_nSize = 256
  /\ m_pPerlin.m_nMask = 255

\* the lattice point of the last call of generate
LastCell == <<Floorf(last.x), Floorf(last.y)>>

\* C16: with the Permutation hash the lattice hash has period m_nSize in
\* each axis: HashCorners(x + size, y) and HashCorners(x, y + size) yield
\* the four indices of HashCorners(x, y).
PermutationHashPeriodic ==
  (last.fn = "generate" /\ m_pPerlin.m_eHash = "Permutation") =>
    \A x \in {0, LastCell[1], LastCell[1] + 1}, y \in {0, LastCell[2], LastCell[2] + 1} :
      /\ HashCorners(m_pPerlin, x + m_pPerlin.m_nSize, y) = HashCorners(m_pPerlin, x, y)
      /\ HashCorners(m_pPerlin, x, y + m_pPerlin.m_nSize) = HashCorners(m_pPerlin, x, y)

\* generate sampled the last cell of the largest table with the
\* Permutation hash
PermutationHashWrapped ==
  /\ last.fn = "generate"
  /\ last.n >= 1
  /\ m_pPerlin.m_eHash = "Permutation"
  /\ m_pPerlin.m_nSize = 1024
  /\ LastCell = <<1023, 1023>>

\* what the filler of distribution d writes on a new table of n entries
\* after m_stdRandom.seed(s), and what the shuffle writes on a new m_nPerm
TableFor(s, n, d) == filled.m_fTable[<<seed(s), n, d>>].m_fTable

PermutationFor(s, n) == filled.m_nPerm[<<s, n>>].m_nPerm

\* C17: a resize that returns true refills m_fTable and m_nPerm for the new
\* size from the current seed and the selected distribution, and leaves the
\* seed and the distribution, hash and spline selections as they were.
ResizeRefills ==
  [][(last'.fn \in {"DoubleTableSize", "HalveTableSize", "DefaultTableSize"}
        /\ last'.ret) =>
       /\ m_pPerlin'.m_nSize # m_pPerlin.m_nSize
       /\ m_pPerlin'.m_nSeed = m_pPerlin.m_nSeed
       /\ m_pPerlin'.m_eDistribution = m_pPerlin.m_eDistribution
       /\ m_pPerlin'.m_eHash = m_pPerlin.m_eHash
       /\ m_pPerlin'.m_eSpline = m_pPerlin.m_eSpline
       /\ m_pPerlin'.m_fTable
            = TableFor(m_pPerlin.m_nSeed, m_pPerlin'.m_nSize, m_pPerlin.m_eDistribution)
       /\ m_pPerlin'.m_nPerm = PermutationFor(m_pPerlin.m_nSeed, m_pPerlin'.m_nSize)]_vars

\* a resize succeeded on an engine set to another distribution, hash and
\* spline than the constructor's
ResizedWithSelections ==
  /\ last.fn = "HalveTableSize"
  /\ last.ret
  /\ m_pPerlin.m_nSize = 32
  /\ m_pPerlin.m_eDistribution = "Exponential"
  /\ m_pPerlin.m_eHash = "Std"
  /\ m_pPerlin.m_eSpline = "Quintic"

\* C18: with m_nSeed unchanged, m_nPerm is a function of the seed and the
\* size and m_fTable a function of the seed, the size and the distribution,
\* whatever calls led to them; RandomizeTable(d) called again changes
\* nothing, and no call of RandomizeTable changes m_nPerm.
ArraysDependOnSelections ==
  /\ [](/\ m_pPerlin.m_nPerm = PermutationFor(m_pPerlin.m_nSeed, m_pPerlin.m_nSize)
        /\ m_pPerlin.m_fTable
             = TableFor(m_pPerlin.m_nSeed, m_pPerlin.m_nSize, m_pPerlin.m_eDistribution))
  /\ [][last'.fn = "RandomizeTable" =>
          /\ m_pPerlin'.m_nPerm = m_pPerlin.m_nPerm
          /\ m_pPerlin'.m_nSeed = m_pPerlin.m_nSeed
          /\ (last.fn = "RandomizeTable"
                /\ m_pPerlin'.m_eDistribution = m_pPerlin.m_eDistribution)
               => m_pPerlin' = m_pPerlin]_vars

\* RandomizeTable refilled a table that resizes and SetHash came before
RefilledAfterResizes ==
  /\ last.fn = "RandomizeTable"
  /\ m_pPerlin.m_eDistribution = "Midpoint"
  /\ m_pPerlin.m_nSize = 64
  /\ m_pPerlin.m_eHash = "LinearCongruential"

\* C19: on every call of RandomizeTableMidpoint(i, j, alpha) made during
\* RandomizeTable(Midpoint), the first with (0, size-1, 0.5), the asserts
\* i < j && j < m_nSize, alpha < 0.0f and i < mid && mid < j hold.
MidpointAssertsHold ==
  last.fn = "RandomizeTableMidpoint" =>
    (last.asserts[1] /\ last.asserts[2] /\ last.asserts[3])

\* RandomizeTable(Midpoint) has returned
MidpointDone == last.fn = "RandomizeTableMidpoint" /\ last.stack = <<>>

WroteMidpoint == last.fn = "RandomizeTableMidpoint" /\ last.j > last.i + 1

\* 0.5 / 2^k, the lacunarity at the recursion depth k
Lacunarity(k) == <<1, -(k + 1)>>

\* the offset r of the midpoint written last: the draw of
\* uniform_real_distribution<float>(-1, 1), which left the PRNG in its
\* present state, times the lacunarity 0.5 / 2^k
LastOffset ==
  FMul(Lacunarity(last.k), UniformReal(<<-1, 0>>, <<1, 0>>, m_pPerlin.m_stdRandom))

Half == m_pPerlin.m_nSize \div 2

\* C22: after RandomizeTable(Exponential), and after a resize with that
\* distribution, every entry of the first half of the table (0 .. size/2-1)
\* lies in [0, 1] and every entry of the second half (size/2 .. size-1) in
\* [-1, 0].
ExponentialHalves ==
  m_pPerlin.m_eDistribution = "Exponential" =>
    /\ \A i \in 0 .. Half - 1 :
         /\ FLe(<<0, 0>>, m_pPerlin.m_fTable[i])
         /\ FLe(m_pPerlin.m_fTable[i], <<1, 0>>)
    /\ \A i \in Half .. m_pPerlin.m_nSize - 1 :
         /\ FLe(<<-1, 0>>, m_pPerlin.m_fTable[i])
         /\ FLe(m_pPerlin.m_fTable[i], <<0, 0>>)

\* RandomizeTable(Exponential) filled the largest table, with a draw that
\* the clamp held at 1 in the first half and at -1 in the second
ExponentialClamped ==
  /\ last.fn = "RandomizeTable"
  /\ m_pPerlin.m_eDistribution = "Exponential"
  /\ m_pPerlin.m_nSize = 1024
  /\ \E i \in 0 .. Half - 1 : m_pPerlin.m_fTable[i] = <<1, 0>>
  /\ \E i \in Half .. 1023 : m_pPerlin.m_fTable[i] = <<-1, 0>>
  /\ \E i \in Half .. 1023 : FLt(<<-1, 0>>, m_pPerlin.m_fTable[i])
                             /\ FLt(m_pPerlin.m_fTable[i], <<0, 0>>)

\* C23 as stated: after RandomizeTable(Exponential) the second half of the
\* table holds the negation of the first half: m_fTable[size/2 + i] =
\* -m_fTable[i] for 0 <= i < size/2.
ExponentialMirrored ==
  (last.fn = "RandomizeTable" /\ m_pPerlin.m_eDistribution = "Exponential") =>
    \A i \in 0 .. Half - 1 :
      m_pPerlin.m_fTable[Half + i] = FNeg(m_pPerlin.m_fTable[i])

\* the next value of the engine, kept as the value of draw i
NextValue(a, i) ==
  [m_stdRandom |-> NextRand(a.m_stdRandom),
   values |-> [a.values EXCEPT ![i] = NextRand(a.m_stdRandom)]]

\* the first n values of the engine after m_stdRandom.seed(s)
EngineValues(s, n) ==
  For(NextValue, [m_stdRandom |-> seed(s), values |-> [i \in 0 .. n - 1 |-> 0]],
      0, n).values

\* clamp(0.0f, d(m_stdRandom), 1.0f) for the engine value x
ClampedDraw(x) == clamp(<<0, 0>>, ExponentialReal(IntF(ExpRate), x), <<1, 0>>)

\* entry i is the clamped draw i in the first half and the negation of the
\* clamped draw i in the second, v being the values of the engine
HalvesFromDraws(v) ==
  \A i \in 0 .. m_pPerlin.m_nSize - 1 :
    m_pPerlin.m_fTable[i]
      = IF i < Half THEN ClampedDraw(v[i]) ELSE FNeg(ClampedDraw(v[i]))

\* C23: after RandomizeTable(Exponential) the first half of the table holds
\* the clamped values of the draws 0 .. size/2-1 of the reseeded PRNG and
\* the second half the negation of the clamped values of the further draws
\* size/2 .. size-1: entry size/2 + i is the negation of a clamped value
\* drawn for it, not of entry i.
ExponentialFreshDraws ==
  (last.fn = "RandomizeTable" /\ m_pPerlin.m_eDistribution = "Exponential") =>
    HalvesFromDraws(EngineValues(m_pPerlin.m_nSeed, m_pPerlin.m_nSize))

\* RandomizeTable(Exponential) left an entry of the second half that is
\* not the negation of the entry of the first half at the same offset
ExponentialNotMirrored ==
  /\ last.fn = "RandomizeTable"
  /\ m_pPerlin.m_eDistribution = "Exponential"
  /\ m_pPerlin.m_nSize = 16
  /\ m_pPerlin.m_fTable[Half] # FNeg(m_pPerlin.m_fTable[0])

\* generate returned on two engines that differ in m_nPerm only, set to a
\* hash other than Permutation
OtherHashSampled ==
  /\ last.fn = "generate"
  /\ m_pPerlin.m_eHash \in {"LinearCongruential", "Std"}
  /\ m_pPerlin2 = [m_pPerlin EXCEPT !.m_nPerm = m_pPerlin2.m_nPerm]
  /\ m_pPerlin2.m_nPerm # m_pPerlin.m_nPerm

\* C24 as stated: with the LinearCongruential or the Std hash, two engines
\* that differ in the contents of m_nPerm only return the same
\* generate(x, y, kind, octaves), for both noise kinds.
PermutationNotRead ==
  OtherHashSampled => last.ret = last.ret2

\* C24: with the LinearCongruential or the Std hash, two engines that
\* differ in the contents of m_nPerm only hash every lattice cell to the
\* same four indices and return the same generate(x, y, Value, octaves);
\* for Perlin noise z reads the Y gradient at m_fTable[m_nPerm[h]] whatever
\* the hash is, so the values may differ.
PermutationNotReadByValue ==
  OtherHashSampled =>
    /\ \A x \in {0, LastCell[1], LastCell[1] + 1}, y \in {0, LastCell[2], LastCell[2] + 1} :
         HashCorners(m_pPerlin, x, y) = HashCorners(m_pPerlin2, x, y)
    /\ last.t = "Value" => last.ret = last.ret2

\* Perlin noise with the LinearCongruential hash differs between the two
\* engines
PerlinReadsPermutation ==
  /\ OtherHashSampled
  /\ m_pPerlin.m_eHash = "LinearCongruential"
  /\ last.t = "Perlin"
  /\ last.ret # last.ret2

\* C25: RandomizeTable(d) changes the contents of the table, the recorded
\* distribution, which it sets to d, and the PRNG state only: the size, the
\* mask, the permutation, the seed and the hash and spline selections are
\* as before the call, and the table keeps its length.
RandomizeTableFrame ==
  [][last'.fn = "RandomizeTable" =>
       /\ m_pPerlin'.m_eDistribution = last'.d
       /\ m_pPerlin'.m_nSize = m_pPerlin.m_nSize
       /\ m_pPerlin'.m_nMask = m_pPerlin.m_nMask
       /\ m_pPerlin'.m_nPerm = m_pPerlin.m_nPerm
       /\ m_pPerlin'.m_nSeed = m_pPerlin.m_nSeed
       /\ m_pPerlin'.m_eHash = m_pPerlin.m_eHash
       /\ m_pPerlin'.m_eSpline = m_pPerlin.m_eSpline
       /\ DOMAIN m_pPerlin'.m_fTable = DOMAIN m_pPerlin.m_fTable
       /\ m_pPerlin2' = m_pPerlin2]_vars

\* RandomizeTable(Cosine) returned on an engine of another size, hash and
\* spline than the constructor's
RefilledWithCosine ==
  /\ last.fn = "RandomizeTable"
  /\ last.d = "Cosine"
  /\ m_pPerlin.m_eDistribution = "Cosine"
  /\ m_pPerlin.m_nSize = 32
  /\ m_pPerlin.m_eHash = "Std"
  /\ m_pPerlin.m_eSpline = "None"

\* the two asserts of spline for the argument x
SplineAsserts(e, x) ==
  <<FLe(<<-1, 0>>, x) /\ FLe(x, <<1, 0>>),
    FLe(<<-1, 0>>, spline(e, x)) /\ FLe(spline(e, x), <<1, 0>>)>>

\* C26: for each spline kind the value of spline(t) is 0 at t = 0, 1 at
\* t = 1 and in [0, 1] for every t in [0, 1], so both asserts of spline
\* hold for every fractional offset that noise passes to it.
SplineInUnitRange ==
  last.fn = "noise" =>
    /\ spline(m_pPerlin, <<0, 0>>) = <<0, 0>>
    /\ spline(m_pPerlin, <<1, 0>>) = <<1, 0>>
    /\ \A f \in {Frac(last.x), Frac(last.y)} :
         /\ FLe(<<0, 0>>, spline(m_pPerlin, f))
         /\ FLe(spline(m_pPerlin, f), <<1, 0>>)
         /\ SplineAsserts(m_pPerlin, f)[1]
         /\ SplineAsserts(m_pPerlin, f)[2]

\* C27: after any sequence of IncreaseOctaves, DecreaseOctaves and Reset
\* (and the other settings commands) 1 <= m_nOctaves <= 8; IncreaseOctaves
\* at 8 and DecreaseOctaves at 1 leave it as it is, m_nOctaves - 1 does not
\* wrap around, and generate is never called with 0 octaves.
OctavesInRange ==
  /\ [](/\ m_nMinOctaves <= g_pMain.m_nOctaves
        /\ g_pMain.m_nOctaves <= m_nMaxOctaves
        /\ m_nMinOctaves = 1
        /\ m_nMaxOctaves = 8
        /\ last.generated => (1 <= last.octaves /\ last.octaves <= 8))
  /\ [][/\ (last'.fn = "IncreaseOctaves" /\ g_pMain.m_nOctaves = 8)
             => g_pMain'.m_nOctaves = 8
        /\ (last'.fn = "DecreaseOctaves" /\ g_pMain.m_nOctaves = 1)
             => g_pMain'.m_nOctaves = 1
        /\ last'.fn = "DecreaseOctaves"
             => Decremented(g_pMain.m_nOctaves) = g_pMain.m_nOctaves - 1
        /\ last'.fn = "Reset" => g_pMain'.m_nOctaves = 4]_vars

\* DecreaseOctaves was called with one octave and generated the bitmap
\* with one octave
DecreasedAtMinimum ==
  /\ last.fn = "DecreaseOctaves"
  /\ last.before = 1
  /\ g_pMain.m_nOctaves = 1
  /\ last.generated
  /\ last.octaves = 1
  /\ g_pMain.m_eNoise = "Perlin"

\* C28: SetDistribution(d) returns true exactly when d differs from the
\* recorded distribution m_eDistr; when d equals it, the call returns false
\* and leaves the engine and the bitmap as they were; when d differs, the
\* table of the engine is refilled with d and the bitmap is generated again.
SetDistributionReturnsChanged ==
  [][last'.fn = "SetDistribution" =>
       /\ last'.ret = Returns(g_pMain'.m_eDistr # g_pMain.m_eDistr)
       /\ last'.ret = "false" =>
            /\ m_pPerlin' = m_pPerlin
            /\ g_pMain' = g_pMain
            /\ ~last'.generated
       /\ last'.ret = "true" =>
            /\ m_pPerlin'.m_eDistribution = g_pMain'.m_eDistr
            /\ m_pPerlin'.m_fTable
                 = TableFor(m_pPerlin.m_nSeed, m_pPerlin.m_nSize, g_pMain'.m_eDistr)
            /\ last'.generated
            /\ g_pMain'.m_pBitmap = Drawn(g_pMain', m_pPerlin', g_pMain.m_eNoise)]_vars

\* SetDistribution(Normal) was called when Normal was the recorded
\* distribution of a table of 64 entries, and returned false
SetDistributionUnchanged ==
  /\ last.fn = "SetDistribution"
  /\ last.ret = "false"
  /\ ~last.generated
  /\ g_pMain.m_eDistr = "Normal"
  /\ m_pPerlin.m_nSize = 64

ResetRestoresDefaults ==
  [][last'.fn = "Reset" =>
       /\ g_pMain'.m_nOctaves = 4
       /\ g_pMain'.m_fScale = <<1, 6>>
       /\ m_pPerlin'.m_nSize = 256
       /\ last'.ret = Returns(m_pPerlin.m_nSize # 256)
       /\ last'.generated
       /\ last'.octaves = 4
       /\ g_pMain'.m_pBitmap = Drawn(g_pMain', m_pPerlin', g_pMain.m_eNoise)
       /\ g_pMain'.m_pBitmap.octaves = 4
       /\ g_pMain'.m_pBitmap.scale = <<1, 6>>
       /\ g_pMain'.m_pBitmap.m_nSize = 256]_vars

\* Reset was called with 8 octaves on a table of another size than 256 after
\* Value noise had been generated, and generated it again with the defaults
ResetFromChanged ==
  /\ last.fn = "Reset"
  /\ last.ret = "true"
  /\ last.before = 8
  /\ g_pMain.m_nOctaves = 4
  /\ g_pMain.m_fScale = <<1, 6>>
  /\ m_pPerlin.m_nSize = 256
  /\ g_pMain.m_eNoise = "Value"

====
